---- MODULE Spec2Model ----
(***************************************************************************)
(* A model of the terminal UI toolkit of imdb_scraper                      *)
(* (src/imdb_scraper/curses_gui.py) and of the menu flows of src/main.py   *)
(* that drive it.                                                          *)
(*                                                                         *)
(* Part 1: the cancellable background task bridge                          *)
(*         (SelectableThread, run_cancellable_thread,                      *)
(*          run_cancellable_thread_dialog, show_exception_details_dialog). *)
(* Part 2: MainMenu.run_modally with the callbacks of MyMenu, among them   *)
(*         the video-file edit flow that calls the bridge.                 *)
(*                                                                         *)
(* The foreground thread and the worker thread are two processes; each     *)
(* action is one step of one of them, or a keystroke arriving from the     *)
(* terminal.                                                               *)
(***************************************************************************)
EXTENDS Integers, Sequences, FiniteSets, TLC

(* ------------------------------ bounds --------------------------------- *)

\* keystrokes that may sit unread in the terminal's input queue
MaxQueue == 2
\* calls of run_cancellable_thread made by the caller of Part 1
MaxCalls == 2
\* entries of the menu of Part 2
MaxMenuRows == 3
\* rows of the terminal screen (stdscr.getmaxyx)
ScreenRows == 4
\* rows handed to the ScrollingPanel of Part 3
MaxRows == 3
\* Up/Down keys followed as one sequence
MaxSeq == 3
\* how far below 0 the hilighted column index is followed
MaxColUnder == 2
\* columns of the terminal screen (stdscr.getmaxyx)
ScreenCols == 6
\* fractions of the screen are taken in steps of 1/FracDen
FracDen == 4
\* characters of an InputPanel's text
MaxText == 3
\* buttons of a DialogBox
MaxButtons == 3
\* rows and content height of the panel that is scrolled down, and the
\* KEY_DOWNs it is given
MaxDownRows == 6
MaxDownHeight == 4
MaxDowns == 7
\* entry width and text length of the InputPanel that is typed into
MaxTypeWidth == 10
MaxTypeText == 13
\* width of the screen a panel is painted on
MaxPaintScreen == 9

(* ----------------------------- constants ------------------------------- *)

ESC == "ESC"
RET == "RET"
KEY_UP == "UP"
KEY_DOWN == "DOWN"
KEY_LEFT == "LEFT"
KEY_RIGHT == "RIGHT"
KEY_PPAGE == "PPAGE"
KEY_NPAGE == "NPAGE"
KEY_HOME == "HOME"
KEY_END == "END"
KEY_OTHER == "x"

\* keys typed while the bridge is the only reader
BridgeKeys == {ESC, RET, KEY_OTHER}

None == "None"
\* values an operation may return
Values == {"v1", "v2"}
\* the captured sys.exc_info() tuple
ExcInfo == "exc_info"

\* how the operation handed to the bridge ends:
\*   ret    it returns a value
\*   exc    it raises an exception derived from Exception
\*   base   it raises an exception outside Exception (SystemExit,
\*          KeyboardInterrupt, GeneratorExit)
\*   notask the task is None (or falsy): run() calls nothing
OpKinds == {"ret", "exc", "base", "notask"}

VARIABLES
    \* ---- the call of run_cancellable_thread
    cfg,            \* its arguments: task, getch_function, cancel_keys, ...
    fgPc,           \* where the foreground thread is in run_cancellable_thread
    pendingExc,     \* the exception raised inside try ... finally, if any
    outcome,        \* how the call ended: None, "Return", "UserCancel", "AsyncThread"
    retval,         \* the value returned when outcome = "Return"
    \* ---- the SelectableThread
    wkPc,           \* where the worker thread is in SelectableThread.run
    callable_result,
    callable_exception_info_tuple,
    pipeBytes,      \* bytes written to the pipe and not read
    readOpen,       \* read_pipe_fd is open
    writeOpen,      \* write_pipe_fd is open
    \* ---- the terminal
    keys,           \* keystrokes typed and not yet read
    dlgShown,       \* the DialogBox of run_cancellable_thread_dialog is visible
    msgPanel,       \* the MessagePanel of show_exception_details_dialog
    logged,         \* the exception lines were written to the log
    \* ---- observations of the run (history)
    slotWrites,     \* writes of the result/exception slot in this call
    slotWriters,    \* the threads that wrote it
    sentinels,      \* sentinel bytes written in this call
    fgReads,        \* reads of the slot by the foreground in this call
    fgReadEarly,    \* the foreground read the slot while the worker was alive
    pipeSeen,       \* a select() of this call already reported the pipe readable
    passedOver,     \* a cancel key was queued behind a key the wait discarded, and is not read yet
    waitKeys,       \* keys read by getch_function during the wait
    cancelAt,       \* the worker's position when the cancel key was read
    ackKey,         \* the key that acknowledged the exception panel
    raceSnap,       \* the state in which sentinel and cancel key were first both pending
    raceFirst,      \* <<raceSnap, outcome>> of the first call that had such a state
    calls,          \* calls made so far
    \* ---- MainMenu.run_modally and the callbacks of MyMenu
    menuPc,         \* where the foreground thread is in run_modally and below
    numRows,        \* entries of the menu (num_rows)
    sel,            \* [row, col, top]: hilighted_row_index, hilighted_col_index,
                    \* top_visible_row_index of the menu
    menuVisible,    \* is_visible of the menu
    excPanel,       \* the MessagePanel of run_modally's exception handler
    caughtExc,      \* the exception caught at run_modally's handler
    escapedExc,     \* the exception that left run_modally
    escapedFrom,    \* "callback" or "keystroke": where that exception was raised
    video_files_is_dirty,
    hasVideos,      \* self.video_files is a non-empty list
    listShown,      \* the ScrollingPanel of display_all_video_file_data is visible
    editShown,      \* the ScrollingPanel of edit_individual_video_file is visible
    lastKey,        \* the key last read by run_modally's own getch
    quitAsks,       \* calls of quit_confirm made for that key
    quitAnswer,     \* what quit_confirm answered, None before it was asked
    selAtEsc,       \* the selection when the cancel key was read
    \* ---- one ScrollingPanel (or MessagePanel) and its caller
    pPc,            \* "none" before construction, "idle", or "run" inside run()
    rows,           \* self.rows: a sequence of rows, each a sequence of columns
    header_row,     \* self.header_row: a sequence of columns, <<>> for None
    num_header_rows,
    column_widths,
    psel,           \* [row, col, top]: hilighted_row_index, hilighted_col_index,
                    \* top_visible_row_index
    needs_render,
    content_height,
    stopKeys,       \* the stop_key_list of the running run()
    run_result,     \* the ScrollPanelRunResult, when the call just made was a run() that returned
    pErr,           \* the exception the last call raised, None if it returned
    lastOp,         \* [op, key, painted]: the last call made on the panel
    seqI0,          \* the hilighted row when the current run of Up/Down keys began
    seqKeys,        \* the Up/Down keys handled since then
    \* ---- the other widgets, each with its caller
    geo,            \* a panel's set_geometry: its inputs, its height and width
    ip,             \* an InputPanel
    dlg,            \* a DialogBox
    rowObj          \* a Row built from a caller's value

bridgeVars == <<cfg, fgPc, pendingExc, outcome, retval, wkPc, callable_result,
                callable_exception_info_tuple, pipeBytes, readOpen, writeOpen,
                keys, dlgShown, msgPanel, logged, slotWrites, slotWriters,
                sentinels, fgReads, fgReadEarly, pipeSeen, passedOver, waitKeys, cancelAt, ackKey,
                raceSnap, raceFirst, calls>>

menuVars == <<menuPc, numRows, sel, menuVisible, excPanel, caughtExc, escapedExc,
              escapedFrom, video_files_is_dirty, hasVideos, listShown, editShown,
              lastKey, quitAsks, quitAnswer, selAtEsc>>

panelVars == <<pPc, rows, header_row, num_header_rows, column_widths, psel,
               needs_render, content_height, stopKeys, run_result,
               pErr, lastOp, seqI0, seqKeys>>

widgetVars == <<geo, ip, dlg, rowObj>>

\* the variables Part 1 does not touch
outsideBridge == <<menuVars, panelVars, widgetVars>>

\* the variables of Parts 3 and 4, which Part 2 does not touch
outsideMenu == <<panelVars, widgetVars>>

vars == <<bridgeVars, menuVars, panelVars, widgetVars>>

(* ------------------------- the bridge's arguments ----------------------- *)

\* run_cancellable_thread(task, getch_function, cancel_keys, show_exception_dialog)
PlainConfigs ==
    [op : {"exc", "base", "notask"}, val : {None}, getch : BOOLEAN,
     cancel : {{ESC}, {ESC, RET}}, showExc : BOOLEAN, viaDialog : {FALSE}]
    \cup
    [op : {"ret"}, val : Values, getch : BOOLEAN,
     cancel : {{ESC}, {ESC, RET}}, showExc : BOOLEAN, viaDialog : {FALSE}]

\* run_cancellable_thread_dialog(task, dialog_text): the DialogBox's getch,
\* cancel_keys = [ESCAPE, RETURN], show_exception_dialog left at True
DialogConfigs ==
    [op : {"exc", "base", "notask"}, val : {None}, getch : {TRUE},
     cancel : {{ESC, RET}}, showExc : {TRUE}, viaDialog : {TRUE}]
    \cup
    [op : {"ret"}, val : Values, getch : {TRUE},
     cancel : {{ESC, RET}}, showExc : {TRUE}, viaDialog : {TRUE}]

Configs == PlainConfigs \cup DialogConfigs

NoConfig == [op |-> "notask", val |-> None, getch |-> FALSE, cancel |-> {},
             showExc |-> FALSE, viaDialog |-> FALSE]

NoSnap == <<>>

\* no selection recorded
NoSel == [row |-> -1, col |-> -1, top |-> -1]

\* no call made on the panel yet
\* a widget that was not constructed
NoWidget == [pc |-> "none"]

NoOp == [op |-> "none", key |-> None, painted |-> FALSE]



(* ------------------------ SelectableThread.run -------------------------- *)

\* (mutant) the loop condition never holds: the wait is skipped
IsAliveNever == FALSE

\* threading.Thread.is_alive(): true from start() until run() has ended
IsAlive == wkPc \in {"running", "ran", "written", "closed"}

\* the operation ends (curses_gui.py:97-102).  A returned value or an
\* exception caught by "except Exception" is stored in the slot; an
\* exception outside Exception is not caught, leaves run() and ends the
\* thread before os.write is reached.
WorkerOpEnd ==
    /\ wkPc = "running"
    /\ wkPc' = IF cfg.op = "base" THEN "dead" ELSE "ran"
    /\ callable_result' = IF cfg.op = "ret" THEN cfg.val ELSE callable_result
    /\ callable_exception_info_tuple' =
           IF cfg.op = "exc" THEN ExcInfo ELSE callable_exception_info_tuple
    /\ slotWrites' = IF cfg.op \in {"ret", "exc"} THEN slotWrites + 1 ELSE slotWrites
    /\ slotWriters' = IF cfg.op \in {"ret", "exc"}
                         THEN slotWriters \cup {"worker"} ELSE slotWriters
    /\ UNCHANGED <<pipeBytes, writeOpen, sentinels>>

\* os.write(self.write_pipe_fd, b'\n')  (curses_gui.py:110)
WorkerWrite ==
    /\ wkPc = "ran"
    /\ writeOpen
    /\ wkPc' = "written"
    /\ pipeBytes' = pipeBytes + 1
    /\ sentinels' = sentinels + 1
    /\ UNCHANGED <<callable_result, callable_exception_info_tuple, writeOpen,
                   slotWrites, slotWriters>>

\* os.close(self.write_pipe_fd)  (curses_gui.py:111)
WorkerClose ==
    /\ wkPc = "written"
    /\ wkPc' = "closed"
    /\ writeOpen' = FALSE
    /\ UNCHANGED <<callable_result, callable_exception_info_tuple, pipeBytes,
                   slotWrites, slotWriters, sentinels>>

\* run() returns and the thread ends
WorkerExit ==
    /\ wkPc = "closed"
    /\ wkPc' = "dead"
    /\ UNCHANGED <<callable_result, callable_exception_info_tuple, pipeBytes,
                   writeOpen, slotWrites, slotWriters, sentinels>>

\* one step of the worker thread
WorkerStep == WorkerOpEnd \/ WorkerWrite \/ WorkerClose \/ WorkerExit

fgOnly == <<fgPc, pendingExc, outcome, retval, keys, dlgShown, msgPanel, logged,
            fgReads, fgReadEarly, pipeSeen, passedOver, waitKeys, cancelAt, ackKey, raceFirst>>

threadVars == <<wkPc, callable_result, callable_exception_info_tuple, pipeBytes,
                writeOpen, slotWrites, slotWriters, sentinels>>

(* ------------------------ run_cancellable_thread ------------------------ *)

\* the selector reports the pipe's read end readable: a byte is waiting, or
\* the write end was closed (end of file)
PipeReady == readOpen /\ (pipeBytes > 0 \/ ~writeOpen)

\* the selector reports sys.stdin readable; it is registered only when a
\* getch_function was given  (curses_gui.py:945-946)
StdinReady == cfg.getch /\ keys # <<>>

\* "key in cancel_keys"  (curses_gui.py:953)
IsCancelKey(k) == k \in cfg.cancel

\* the sentinel is pending in the pipe and a cancel keystroke is queued while
\* the foreground is about to test the loop condition
RaceCond(fp, ks, pb) ==
    /\ fp = "loop"
    /\ cfg.getch
    /\ pb > 0
    /\ \E i \in 1..Len(ks) : ks[i] \in cfg.cancel

\* remembers the first state of the call in which both were pending
Track ==
    raceSnap' = IF raceSnap = NoSnap /\ RaceCond(fgPc', keys', pipeBytes')
                   THEN <<wkPc', keys', cfg>>
                   ELSE raceSnap

\* (mutant) the dialog is hidden after a returned value only, not by a with
\* block
FinishNoWith(o, rv) ==
    /\ fgPc' = "done"
    /\ outcome' = o
    /\ retval' = rv
    /\ dlgShown' = IF o = "Return" THEN FALSE ELSE dlgShown

\* the call ends with outcome o (and value rv); leaving the "with DialogBox"
\* block of run_cancellable_thread_dialog hides the dialog
Finish(o, rv) ==
    /\ fgPc' = "done"
    /\ outcome' = o
    /\ retval' = rv
    /\ dlgShown' = FALSE

NoFinish == UNCHANGED <<outcome, retval, dlgShown>>

\* SelectableThread(task); start(); the selector is set up
\* (curses_gui.py:89-94, 936-946, 970-972)
StartBridge(c) ==
    /\ cfg' = c
    /\ fgPc' = "loop"
    /\ pendingExc' = None
    /\ outcome' = None
    /\ retval' = None
    /\ wkPc' = "running"
    /\ callable_result' = None
    /\ callable_exception_info_tuple' = None
    /\ pipeBytes' = 0
    /\ readOpen' = TRUE
    /\ writeOpen' = TRUE
    /\ dlgShown' = c.viaDialog
    /\ msgPanel' = None
    /\ logged' = FALSE
    /\ slotWrites' = 0
    /\ slotWriters' = {}
    /\ sentinels' = 0
    /\ fgReads' = 0
    /\ fgReadEarly' = FALSE
    /\ pipeSeen' = FALSE
    /\ passedOver' = FALSE
    /\ waitKeys' = FALSE
    /\ cancelAt' = None
    /\ ackKey' = None
    /\ raceSnap' = NoSnap

\* "while task_thread.is_alive():"  (curses_gui.py:949)
FgCheckAlive ==
    /\ fgPc = "loop"
    /\ fgPc' = IF IsAlive THEN "select" ELSE "finally"
    /\ NoFinish
    /\ UNCHANGED <<cfg, pendingExc, keys, msgPanel, logged, fgReads, fgReadEarly, pipeSeen, passedOver,
                   waitKeys, cancelAt, ackKey, readOpen, calls, raceFirst>>
    /\ UNCHANGED threadVars
    /\ UNCHANGED outsideBridge
    /\ Track

\* "for selector_key, event_mask in sel.select():" blocks until a registered
\* source is readable; for the STDIN event one key is read and, if it is a
\* cancel key, UserCancelException is raised  (curses_gui.py:950-954)
FgSelect ==
    /\ fgPc = "select"
    /\ PipeReady \/ StdinReady
    /\ IF StdinReady
          THEN /\ keys' = Tail(keys)
               /\ waitKeys' = TRUE
               /\ IF IsCancelKey(Head(keys))
                     THEN /\ pendingExc' = "UserCancel"
                          /\ cancelAt' = wkPc
                          /\ fgPc' = "finally"
                     ELSE /\ fgPc' = "loop"
                          /\ UNCHANGED <<pendingExc, cancelAt>>
          ELSE /\ fgPc' = "loop"
               /\ UNCHANGED <<keys, waitKeys, pendingExc, cancelAt>>
    /\ pipeSeen' = (pipeSeen \/ PipeReady)
    /\ passedOver' = IF StdinReady /\ IsCancelKey(Head(keys)) THEN FALSE
                      ELSE \/ passedOver
                           \/ StdinReady /\ Len(keys) >= 2 /\ keys[2] \in cfg.cancel
    /\ NoFinish
    /\ UNCHANGED <<cfg, msgPanel, logged, fgReads, fgReadEarly, ackKey, readOpen, calls,
                   raceFirst>>
    /\ UNCHANGED threadVars
    /\ UNCHANGED outsideBridge
    /\ Track

\* (mutant) the finally block joins the worker thread before it goes on
FgFinallyJoin ==
    /\ fgPc = "finally"
    /\ wkPc = "dead"
    /\ IF pendingExc = "UserCancel"
          THEN Finish("UserCancel", None)
          ELSE /\ fgPc' = "inspect"
               /\ NoFinish
    /\ UNCHANGED <<cfg, pendingExc, keys, msgPanel, logged, fgReads, fgReadEarly, pipeSeen, passedOver,
                   waitKeys, cancelAt, ackKey, readOpen, calls, raceFirst>>
    /\ UNCHANGED threadVars
    /\ UNCHANGED outsideBridge
    /\ Track

\* (mutant) the finally block also closes the pipe's read end
FgFinallyClosesRead ==
    /\ fgPc = "finally"
    /\ readOpen' = FALSE
    /\ IF pendingExc = "UserCancel"
          THEN Finish("UserCancel", None)
          ELSE /\ fgPc' = "inspect"
               /\ NoFinish
    /\ UNCHANGED <<cfg, pendingExc, keys, msgPanel, logged, fgReads, fgReadEarly, pipeSeen, passedOver,
                   waitKeys, cancelAt, ackKey, calls, raceFirst>>
    /\ UNCHANGED threadVars
    /\ UNCHANGED outsideBridge
    /\ Track

\* the finally block: the selector is unregistered and closed, then a pending
\* UserCancelException leaves the function  (curses_gui.py:955-959)
FgFinally ==
    /\ fgPc = "finally"
    /\ IF pendingExc = "UserCancel"
          THEN Finish("UserCancel", None)
          ELSE /\ fgPc' = "inspect"
               /\ NoFinish
    /\ UNCHANGED <<cfg, pendingExc, keys, msgPanel, logged, fgReads, fgReadEarly, pipeSeen, passedOver,
                   waitKeys, cancelAt, ackKey, readOpen, calls, raceFirst>>
    /\ UNCHANGED threadVars
    /\ UNCHANGED outsideBridge
    /\ Track

\* the slot is read: a stored exception is shown (if asked for) and
\* AsyncThreadException raised, else callable_result is returned
\* (curses_gui.py:961-967, 920-931)
FgInspect ==
    /\ fgPc = "inspect"
    /\ fgReads' = fgReads + 1
    /\ fgReadEarly' = (fgReadEarly \/ wkPc # "dead")
    /\ IF callable_exception_info_tuple # None
          THEN IF cfg.showExc
                  THEN /\ logged' = TRUE
                       /\ msgPanel' = "shown"
                       /\ fgPc' = "excdialog"
                       /\ NoFinish
                  ELSE /\ Finish("AsyncThread", None)
                       /\ UNCHANGED <<logged, msgPanel>>
          ELSE /\ Finish("Return", callable_result)
               /\ UNCHANGED <<logged, msgPanel>>
    /\ UNCHANGED <<cfg, pendingExc, keys, waitKeys, cancelAt, ackKey, readOpen, calls,
                   raceFirst, pipeSeen, passedOver>>
    /\ UNCHANGED threadVars
    /\ UNCHANGED outsideBridge
    /\ Track

\* (mutant) any key ends MessagePanel.run
IsAckKeyAny(k) == TRUE

\* the keys that end MessagePanel.run  (curses_gui.py:625-630)
IsAckKey(k) == k \in {ESC, RET}

\* message_panel.run() reads one key; ESCAPE or RETURN hides the panel, the
\* with block ends and AsyncThreadException is raised
\* (curses_gui.py:618-630, 931-933, 965)
FgDialogKey ==
    /\ fgPc = "excdialog"
    /\ keys # <<>>
    /\ keys' = Tail(keys)
    /\ IF IsAckKey(Head(keys))
          THEN /\ msgPanel' = "hidden"
               /\ ackKey' = Head(keys)
               /\ Finish("AsyncThread", None)
          ELSE /\ UNCHANGED <<msgPanel, ackKey, fgPc>>
               /\ NoFinish
    /\ UNCHANGED <<cfg, pendingExc, logged, fgReads, fgReadEarly, pipeSeen, passedOver, waitKeys,
                   cancelAt, readOpen, calls, raceFirst>>
    /\ UNCHANGED threadVars
    /\ UNCHANGED outsideBridge
    /\ Track

\* one step of the foreground thread inside run_cancellable_thread
FgStep == FgCheckAlive \/ FgSelect \/ FgFinally \/ FgInspect \/ FgDialogKey

\* one step of the worker thread, seen from the whole state
Worker ==
    /\ WorkerStep
    /\ UNCHANGED <<cfg, readOpen, calls>>
    /\ UNCHANGED fgOnly
    /\ UNCHANGED outsideBridge
    /\ Track

\* the user types key k
KeyPress(k) ==
    /\ Len(keys) < MaxQueue
    /\ keys' = Append(keys, k)
    /\ UNCHANGED <<cfg, fgPc, pendingExc, outcome, retval, dlgShown, msgPanel,
                   logged, fgReads, fgReadEarly, pipeSeen, passedOver, waitKeys, cancelAt, ackKey,
                   raceFirst, readOpen, calls>>
    /\ UNCHANGED threadVars
    /\ UNCHANGED outsideBridge
    /\ Track

(* ------------------- Part 1: a caller of the bridge --------------------- *)

\* the caller calls run_cancellable_thread or run_cancellable_thread_dialog
Call(c) ==
    /\ fgPc \in {"idle", "done"}
    /\ calls < MaxCalls
    /\ calls' = calls + 1
    /\ StartBridge(c)
    /\ UNCHANGED <<keys, raceFirst>>
    /\ UNCHANGED outsideBridge

Init ==
    /\ cfg = NoConfig
    /\ fgPc = "idle"
    /\ pendingExc = None
    /\ outcome = None
    /\ retval = None
    /\ wkPc = "none"
    /\ callable_result = None
    /\ callable_exception_info_tuple = None
    /\ pipeBytes = 0
    /\ readOpen = FALSE
    /\ writeOpen = FALSE
    /\ keys = <<>>
    /\ dlgShown = FALSE
    /\ msgPanel = None
    /\ logged = FALSE
    /\ slotWrites = 0
    /\ slotWriters = {}
    /\ sentinels = 0
    /\ fgReads = 0
    /\ fgReadEarly = FALSE
    /\ pipeSeen = FALSE
    /\ passedOver = FALSE
    /\ waitKeys = FALSE
    /\ cancelAt = None
    /\ ackKey = None
    /\ raceSnap = NoSnap
    /\ raceFirst = NoSnap
    /\ calls = 0
    /\ menuPc = "new"
    /\ numRows = 0
    /\ sel = [row |-> 0, col |-> 0, top |-> 0]
    /\ menuVisible = TRUE
    /\ excPanel = None
    /\ caughtExc = None
    /\ escapedExc = None
    /\ escapedFrom = None
    /\ video_files_is_dirty = FALSE
    /\ hasVideos = FALSE
    /\ listShown = FALSE
    /\ editShown = FALSE
    /\ lastKey = None
    /\ quitAsks = 0
    /\ quitAnswer = None
    /\ selAtEsc = NoSel
    /\ pPc = "none"
    /\ rows = <<>>
    /\ header_row = <<>>
    /\ num_header_rows = 0
    /\ column_widths = <<>>
    /\ psel = [row |-> 0, col |-> 0, top |-> 0]
    /\ needs_render = FALSE
    /\ content_height = 0
    /\ stopKeys = {}
    /\ run_result = None
    /\ pErr = None
    /\ lastOp = NoOp
    /\ seqI0 = 0
    /\ seqKeys = <<>>
    /\ geo = NoWidget
    /\ ip = NoWidget
    /\ dlg = NoWidget
    /\ rowObj = NoWidget

\* the caller of the race scenario: it repeats the same call, and remembers
\* how the first call that met the race ended
RaceCall(c) ==
    /\ fgPc \in {"idle", "done"}
    /\ fgPc = "done" => c = cfg
    /\ calls < MaxCalls
    /\ calls' = calls + 1
    /\ StartBridge(c)
    /\ raceFirst' = IF raceFirst = NoSnap /\ raceSnap # NoSnap
                       THEN <<raceSnap, outcome>> ELSE raceFirst
    /\ UNCHANGED keys
    /\ UNCHANGED outsideBridge

Next ==
    \/ \E c \in Configs : Call(c)
    \/ FgCheckAlive
    \/ FgSelect
    \/ FgFinally
    \/ FgInspect
    \/ FgDialogKey
    \/ Worker
    \/ \E k \in BridgeKeys : KeyPress(k)

Spec == Init /\ [][Next]_vars

NextRace ==
    \/ \E c \in Configs : RaceCall(c)
    \/ FgCheckAlive
    \/ FgSelect
    \/ FgFinally
    \/ FgInspect
    \/ FgDialogKey
    \/ Worker
    \/ \E k \in BridgeKeys : KeyPress(k)

SpecRace == Init /\ [][NextRace]_vars


(* ---------------------- claims about the bridge ------------------------- *)

\* C1: run_cancellable_thread ends in exactly one of three outcomes: it
\* raises UserCancelException if a cancel key was read during the wait;
\* otherwise it raises AsyncThreadException if the operation raised;
\* otherwise it returns exactly the value the operation returned.
C1_ThreeOutcomes ==
    (fgPc = "done" /\ cfg.op # "notask") =>
        IF cancelAt # None
           THEN outcome = "UserCancel"
           ELSE IF cfg.op \in {"exc", "base"}
                   THEN outcome = "AsyncThread"
                   ELSE outcome = "Return" /\ retval = cfg.val

\* C2: whether the operation returns or raises, the worker stores the value
\* or the exception and then writes exactly one sentinel byte and closes the
\* write end: one completion signal per task, never before the slot is set.
C2_SignalOnce ==
    /\ sentinels <= 1
    /\ (sentinels = 1 /\ cfg.op # "notask") => slotWrites = 1
    /\ wkPc = "dead" => (sentinels = 1 /\ ~writeOpen)

\* C3: when the sentinel is pending in the pipe and a cancel keystroke is
\* queued at the same time, the call always ends in the same outcome: two
\* calls that pass through the same such state end alike.
C3_SameOutcome ==
    (fgPc = "done" /\ raceFirst # NoSnap /\ raceSnap = raceFirst[1])
        => outcome = raceFirst[2]

\* C4: run_cancellable_thread never hangs: once the worker's run of the
\* operation has ended, the foreground always has a next step until the call
\* has ended, whatever keys are or are not typed.  (Waiting for the
\* acknowledgement of the exception panel is not counted as hanging.)
C4_NeverHangs ==
    (wkPc = "dead" /\ fgPc \in {"loop", "select", "finally", "inspect"})
        => ENABLED FgStep

\* C5: the result/exception slot is written at most once and only by the
\* worker; the foreground reads it only after the worker has ended, and on
\* the cancellation path it never reads it.
C5_SlotDiscipline ==
    /\ slotWrites <= 1
    /\ slotWriters \subseteq {"worker"}
    /\ ~fgReadEarly
    /\ fgReads <= 1
    /\ (pendingExc = "UserCancel" \/ outcome = "UserCancel") => fgReads = 0

\* C5 witness: the worker wrote the slot, ended, and the foreground read it
C5_Witness ==
    fgPc = "done" /\ outcome = "Return" /\ retval \in Values
    /\ slotWrites = 1 /\ fgReads = 1 /\ wkPc = "dead"

\* C6: a cancel key read during the wait makes the call raise
\* UserCancelException without waiting for the worker and without stopping
\* it: the worker goes on to the end of its run, and what it stores is
\* neither returned nor raised.
C6_CancelAbandons ==
    /\ (fgPc = "finally" /\ pendingExc = "UserCancel") => ENABLED FgFinally
    /\ outcome = "UserCancel" =>
          /\ fgPc = "done"
          /\ retval = None
          /\ fgReads = 0
          /\ IsAlive => ENABLED WorkerStep
          /\ (wkPc = "dead" /\ cfg.op \in {"ret", "exc"})
                 => (slotWrites = 1 /\ sentinels = 1)

\* C6 witness: cancelled while the operation was running; the worker later
\* stored a value and ended, and the call had raised UserCancelException
C6_Witness ==
    /\ outcome = "UserCancel" /\ cancelAt = "running"
    /\ wkPc = "dead" /\ callable_result \in Values /\ retval = None

MenuKeys == {ESC, RET, KEY_DOWN, KEY_OTHER}

\* the exception classes that reach run_modally
GuiUserCancel == "curses_gui.UserCancelException"
GuiAsyncThread == "curses_gui.AsyncThreadException"
MainUserCancel == "main.UserCancelException"
AttributeError == "AttributeError"
IndexError == "IndexError"
OtherException == "Exception"
NonException == "BaseException"

Min(a, b) == IF a < b THEN a ELSE b

\* set_geometry with initial_height None: the window is as high as its rows,
\* border and header need, and no higher than the screen
ContentHeight(n, hdr) == Min(ScreenRows, n + 2 + hdr) - 2 - hdr

\* (mutant) handle_keystroke without the scrolling of lines 510-513
HandleKeystrokeNoScroll(st, key, rowCols, ch) ==
    LET n  == Len(rowCols)
        r0 == st.row
        c0 == st.col
        t0 == st.top
        r1 == CASE key = KEY_UP    -> r0 - 1
                [] key = KEY_DOWN  -> r0 + 1
                [] key = KEY_PPAGE -> IF r0 > t0 THEN t0 ELSE r0 - ch
                [] key = KEY_NPAGE -> IF r0 < t0 + ch - 1 THEN t0 + ch - 1 ELSE r0 + ch
                [] key = KEY_HOME  -> 0
                [] key = KEY_END   -> n - 1
                [] OTHER           -> r0
        c1 == CASE key = KEY_LEFT  -> c0 - 1
                [] key = KEY_RIGHT -> c0 + 1
                [] key \in {KEY_HOME, KEY_END} -> 0
                [] OTHER           -> c0
        r2 == IF r1 < 0 THEN 0 ELSE IF r1 >= n THEN n - 1 ELSE r1
        t1 == t0
        t2 == IF t1 < 0 THEN 0 ELSE IF t1 >= n THEN n - 1 ELSE t1
        err == ~(r2 >= -n /\ r2 < n)
        nc == IF err THEN 0 ELSE rowCols[(IF r2 < 0 THEN n + r2 ELSE r2) + 1]
        c2 == IF r0 # r2
                THEN (IF c1 >= nc THEN nc - 1 ELSE c1)
                ELSE (IF c1 < 0 THEN nc - 1 ELSE IF c1 >= nc THEN 0 ELSE c1)
    IN  IF err
          THEN [row |-> r0, col |-> c0, top |-> t0, changed |-> FALSE, err |-> TRUE]
          ELSE [row |-> r2, col |-> c2, top |-> t2,
                changed |-> (t0 # t2 \/ r0 # r2 \/ c0 # c2), err |-> FALSE]

\* (mutant) handle_keystroke without the floor of lines 505-506
HandleKeystrokeNoFloor(st, key, rowCols, ch) ==
    LET n  == Len(rowCols)
        r0 == st.row
        c0 == st.col
        t0 == st.top
        r1 == CASE key = KEY_UP    -> r0 - 1
                [] key = KEY_DOWN  -> r0 + 1
                [] key = KEY_PPAGE -> IF r0 > t0 THEN t0 ELSE r0 - ch
                [] key = KEY_NPAGE -> IF r0 < t0 + ch - 1 THEN t0 + ch - 1 ELSE r0 + ch
                [] key = KEY_HOME  -> 0
                [] key = KEY_END   -> n - 1
                [] OTHER           -> r0
        c1 == CASE key = KEY_LEFT  -> c0 - 1
                [] key = KEY_RIGHT -> c0 + 1
                [] key \in {KEY_HOME, KEY_END} -> 0
                [] OTHER           -> c0
        r2 == IF r1 >= n THEN n - 1 ELSE r1
        t1 == IF r2 < t0 THEN r2 ELSE IF r2 >= t0 + ch THEN r2 - ch + 1 ELSE t0
        t2 == IF t1 < 0 THEN 0 ELSE IF t1 >= n THEN n - 1 ELSE t1
        err == ~(r2 >= -n /\ r2 < n)
        nc == IF err THEN 0 ELSE rowCols[(IF r2 < 0 THEN n + r2 ELSE r2) + 1]
        c2 == IF r0 # r2
                THEN (IF c1 >= nc THEN nc - 1 ELSE c1)
                ELSE (IF c1 < 0 THEN nc - 1 ELSE IF c1 >= nc THEN 0 ELSE c1)
    IN  IF err
          THEN [row |-> r0, col |-> c0, top |-> t0, changed |-> FALSE, err |-> TRUE]
          ELSE [row |-> r2, col |-> c2, top |-> t2,
                changed |-> (t0 # t2 \/ r0 # r2 \/ c0 # c2), err |-> FALSE]

\* (mutant) handle_keystroke on a panel without rows reads no row
HandleKeystrokeQuietWhenEmpty(st, key, rowCols, ch) ==
    LET n  == Len(rowCols)
        r0 == st.row
        c0 == st.col
        t0 == st.top
        r1 == CASE key = KEY_UP    -> r0 - 1
                [] key = KEY_DOWN  -> r0 + 1
                [] key = KEY_PPAGE -> IF r0 > t0 THEN t0 ELSE r0 - ch
                [] key = KEY_NPAGE -> IF r0 < t0 + ch - 1 THEN t0 + ch - 1 ELSE r0 + ch
                [] key = KEY_HOME  -> 0
                [] key = KEY_END   -> n - 1
                [] OTHER           -> r0
        c1 == CASE key = KEY_LEFT  -> c0 - 1
                [] key = KEY_RIGHT -> c0 + 1
                [] key \in {KEY_HOME, KEY_END} -> 0
                [] OTHER           -> c0
        r2 == IF r1 < 0 THEN 0 ELSE IF r1 >= n THEN n - 1 ELSE r1
        t1 == IF r2 < t0 THEN r2 ELSE IF r2 >= t0 + ch THEN r2 - ch + 1 ELSE t0
        t2 == IF t1 < 0 THEN 0 ELSE IF t1 >= n THEN n - 1 ELSE t1
        err == n # 0 /\ ~(r2 >= -n /\ r2 < n)
        nc == IF err \/ n = 0 THEN 0 ELSE rowCols[(IF r2 < 0 THEN n + r2 ELSE r2) + 1]
        c2 == IF r0 # r2
                THEN (IF c1 >= nc THEN nc - 1 ELSE c1)
                ELSE (IF c1 < 0 THEN nc - 1 ELSE IF c1 >= nc THEN 0 ELSE c1)
    IN  IF err
          THEN [row |-> r0, col |-> c0, top |-> t0, changed |-> FALSE, err |-> TRUE]
          ELSE [row |-> r2, col |-> c2, top |-> t2,
                changed |-> (t0 # t2 \/ r0 # r2 \/ c0 # c2), err |-> FALSE]

\* ScrollingPanel.handle_keystroke: st is [row, col, top], rowCols[i] the number
\* of columns of row i, ch the content height.  err: rows[hilighted_row_index]
\* raised IndexError, and nothing was assigned.
HandleKeystroke(st, key, rowCols, ch) ==
    LET n  == Len(rowCols)
        r0 == st.row
        c0 == st.col
        t0 == st.top
        r1 == CASE key = KEY_UP    -> r0 - 1
                [] key = KEY_DOWN  -> r0 + 1
                [] key = KEY_PPAGE -> IF r0 > t0 THEN t0 ELSE r0 - ch
                [] key = KEY_NPAGE -> IF r0 < t0 + ch - 1 THEN t0 + ch - 1 ELSE r0 + ch
                [] key = KEY_HOME  -> 0
                [] key = KEY_END   -> n - 1
                [] OTHER           -> r0
        c1 == CASE key = KEY_LEFT  -> c0 - 1
                [] key = KEY_RIGHT -> c0 + 1
                [] key \in {KEY_HOME, KEY_END} -> 0
                [] OTHER           -> c0
        r2 == IF r1 < 0 THEN 0 ELSE IF r1 >= n THEN n - 1 ELSE r1
        t1 == IF r2 < t0 THEN r2 ELSE IF r2 >= t0 + ch THEN r2 - ch + 1 ELSE t0
        t2 == IF t1 < 0 THEN 0 ELSE IF t1 >= n THEN n - 1 ELSE t1
        err == ~(r2 >= -n /\ r2 < n)
        nc == IF err THEN 0 ELSE rowCols[(IF r2 < 0 THEN n + r2 ELSE r2) + 1]
        c2 == IF r0 # r2
                THEN (IF c1 >= nc THEN nc - 1 ELSE c1)
                ELSE (IF c1 < 0 THEN nc - 1 ELSE IF c1 >= nc THEN 0 ELSE c1)
    IN  IF err
          THEN [row |-> r0, col |-> c0, top |-> t0, changed |-> FALSE, err |-> TRUE]
          ELSE [row |-> r2, col |-> c2, top |-> t2,
                changed |-> (t0 # t2 \/ r0 # r2 \/ c0 # c2), err |-> FALSE]

\* a menu entry is one string: Row(str) has one column
MenuRowCols == [i \in 1..numRows |-> 1]

\* the callback of menu entry i (0-based): a callback that loads, scans or
\* saves, then MyMenu.display_all_video_file_data, then an entry without a
\* callable
MenuChoice(i) == CASE i = 1 -> "display" [] i = 2 -> "none" [] OTHER -> "generic"

\* (mutant) the handler of run_modally names one class only
IsPlainException(e) == e = OtherException

\* "except Exception" of run_modally
IsException(e) == e # NonException

\* "except UserCancelException" in main.py: the class main.py defines
CatchesUserCancel(e) == e = MainUserCancel

\* what run_cancellable_thread raises for an outcome
BridgeRaises(o) == IF o = "UserCancel" THEN GuiUserCancel ELSE GuiAsyncThread

\* load_imdb_search_info after the bridge: the bridge's exception passes
\* through; a returned value has no attribute dialog_result
FetchException(o) == IF o = "Return" THEN AttributeError ELSE BridgeRaises(o)

\* MyMenu.quit_confirm's answer (MainMenu.quit_confirm: always True)
QuitConfirmAnswer == ~video_files_is_dirty

bridgeNoKeys == <<cfg, fgPc, pendingExc, outcome, retval, wkPc, callable_result,
                  callable_exception_info_tuple, pipeBytes, readOpen, writeOpen,
                  dlgShown, msgPanel, logged, slotWrites, slotWriters, sentinels,
                  fgReads, fgReadEarly, pipeSeen, passedOver, waitKeys, cancelAt, ackKey, raceSnap,
                  raceFirst, calls>>

escVars == <<lastKey, quitAsks, quitAnswer, selAtEsc>>

\* exception e reaches the try block of run_modally
Boundary(e) ==
    IF IsException(e)
      THEN /\ menuPc' = "excpanel"
           /\ excPanel' = "shown"
           /\ caughtExc' = e
           /\ UNCHANGED <<escapedExc, escapedFrom>>
      ELSE /\ menuPc' = "crashed"
           /\ escapedExc' = e
           /\ escapedFrom' = "callback"
           /\ UNCHANGED <<excPanel, caughtExc>>

\* (mutant) the menu is not shown again after the callback
CallbackReturnsStaysHidden ==
    /\ menuPc' = "getch"
    /\ menuVisible' = FALSE
    /\ UNCHANGED <<excPanel, caughtExc, escapedExc, escapedFrom>>

\* the callback returned: self.show() and the loop reads the next key
CallbackReturns ==
    /\ menuPc' = "getch"
    /\ menuVisible' = TRUE
    /\ UNCHANGED <<excPanel, caughtExc, escapedExc, escapedFrom>>

\* run_modally up to its first getch: set_menu_choices, set_rows
MenuStart ==
    /\ menuPc = "new"
    /\ \E n \in 0..MaxMenuRows : numRows' = n
    /\ sel' = [row |-> 0, col |-> 0, top |-> 0]
    /\ menuPc' = "getch"
    /\ UNCHANGED <<menuVisible, excPanel, caughtExc, escapedExc, escapedFrom,
                   video_files_is_dirty, hasVideos, listShown, editShown>>
    /\ UNCHANGED escVars
    /\ UNCHANGED keys
    /\ UNCHANGED bridgeNoKeys
    /\ UNCHANGED outsideMenu

flowVars == <<video_files_is_dirty, hasVideos, listShown, editShown>>

\* (mutant) run_modally hides the menu before it asks quit_confirm
MenuEscHideFirst ==
    /\ menuPc = "getch"
    /\ keys # <<>>
    /\ Head(keys) = ESC
    /\ keys' = Tail(keys)
    /\ lastKey' = ESC
    /\ quitAsks' = 1
    /\ selAtEsc' = sel
    /\ menuVisible' = FALSE
    /\ IF QuitConfirmAnswer
         THEN /\ quitAnswer' = "True"
              /\ menuPc' = "returned"
         ELSE /\ quitAnswer' = None
              /\ menuPc' = "quitpanel"
    /\ UNCHANGED <<numRows, sel, excPanel, caughtExc, escapedExc, escapedFrom>>
    /\ UNCHANGED flowVars
    /\ UNCHANGED bridgeNoKeys
    /\ UNCHANGED outsideMenu

\* run_modally reads the cancel key: quit_confirm is asked; on True the menu
\* is hidden and run_modally returns the key; MyMenu.quit_confirm with
\* unsaved data shows a MessagePanel and waits in its run
MenuEsc ==
    /\ menuPc = "getch"
    /\ keys # <<>>
    /\ Head(keys) = ESC
    /\ keys' = Tail(keys)
    /\ lastKey' = ESC
    /\ quitAsks' = 1
    /\ selAtEsc' = sel
    /\ IF QuitConfirmAnswer
         THEN /\ quitAnswer' = "True"
              /\ menuVisible' = FALSE
              /\ menuPc' = "returned"
         ELSE /\ quitAnswer' = None
              /\ menuPc' = "quitpanel"
              /\ UNCHANGED menuVisible
    /\ UNCHANGED <<numRows, sel, excPanel, caughtExc, escapedExc, escapedFrom>>
    /\ UNCHANGED flowVars
    /\ UNCHANGED bridgeNoKeys
    /\ UNCHANGED outsideMenu

\* the MessagePanel of MyMenu.quit_confirm: ESC or RETURN ends its run, the
\* with block hides it, quit_confirm returns False and the loop goes on
QuitPanelKey ==
    /\ menuPc = "quitpanel"
    /\ keys # <<>>
    /\ keys' = Tail(keys)
    /\ IF IsAckKey(Head(keys))
         THEN /\ quitAnswer' = "False"
              /\ menuPc' = "getch"
         ELSE UNCHANGED <<quitAnswer, menuPc>>
    /\ UNCHANGED <<numRows, sel, menuVisible, excPanel, caughtExc, escapedExc,
                   escapedFrom, lastKey, quitAsks, selAtEsc>>
    /\ UNCHANGED flowVars
    /\ UNCHANGED bridgeNoKeys
    /\ UNCHANGED outsideMenu

\* run_modally reads RETURN: the menu is hidden and the callback of the
\* hilighted entry is looked up and called inside the try block
MenuReturn ==
    /\ menuPc = "getch"
    /\ keys # <<>>
    /\ Head(keys) = RET
    /\ keys' = Tail(keys)
    /\ lastKey' = RET
    /\ quitAsks' = 0
    /\ quitAnswer' = None
    /\ selAtEsc' = NoSel
    /\ IF sel.row >= numRows
         THEN /\ Boundary(IndexError)
              /\ menuVisible' = FALSE
              /\ UNCHANGED <<listShown>>
         ELSE CASE MenuChoice(sel.row) = "none" ->
                     /\ CallbackReturns
                     /\ UNCHANGED <<listShown>>
                [] MenuChoice(sel.row) = "generic" ->
                     /\ menuPc' = "generic"
                     /\ menuVisible' = FALSE
                     /\ UNCHANGED <<excPanel, caughtExc, escapedExc, escapedFrom,
                                    listShown>>
                [] OTHER ->
                     /\ menuPc' = IF hasVideos THEN "list" ELSE "nofiles"
                     /\ listShown' = hasVideos
                     /\ menuVisible' = FALSE
                     /\ UNCHANGED <<excPanel, caughtExc, escapedExc, escapedFrom>>
    /\ UNCHANGED <<numRows, sel, video_files_is_dirty, hasVideos, editShown>>
    /\ UNCHANGED bridgeNoKeys
    /\ UNCHANGED outsideMenu

\* run_modally reads any other key: handle_keystroke, outside the try block
MenuOtherKey ==
    /\ menuPc = "getch"
    /\ keys # <<>>
    /\ Head(keys) \notin {ESC, RET}
    /\ keys' = Tail(keys)
    /\ lastKey' = Head(keys)
    /\ quitAsks' = 0
    /\ quitAnswer' = None
    /\ selAtEsc' = NoSel
    /\ LET r == HandleKeystroke(sel, Head(keys), MenuRowCols, ContentHeight(numRows, 0))
       IN  IF r.err
             THEN /\ menuPc' = "crashed"
                  /\ escapedExc' = IndexError
                  /\ escapedFrom' = "keystroke"
                  /\ UNCHANGED sel
             ELSE /\ sel' = [row |-> r.row, col |-> r.col, top |-> r.top]
                  /\ UNCHANGED <<menuPc, escapedExc, escapedFrom>>
    /\ UNCHANGED <<numRows, menuVisible, excPanel, caughtExc>>
    /\ UNCHANGED flowVars
    /\ UNCHANGED bridgeNoKeys
    /\ UNCHANGED outsideMenu

\* a callback other than the display flow ends: it returns or raises, and it
\* may have loaded, scanned, changed or saved the video files
GenericEnd ==
    /\ menuPc = "generic"
    /\ \E d \in BOOLEAN : video_files_is_dirty' = d
    /\ \E h \in BOOLEAN : hasVideos' = h
    /\ \E o \in {"ok", OtherException, NonException} :
          IF o = "ok" THEN CallbackReturns
                      ELSE Boundary(o) /\ UNCHANGED menuVisible
    /\ UNCHANGED <<numRows, sel, listShown, editShown>>
    /\ UNCHANGED escVars
    /\ UNCHANGED keys
    /\ UNCHANGED bridgeNoKeys
    /\ UNCHANGED outsideMenu

\* the MessagePanel of run_modally's handler: ESC or RETURN ends its run and
\* hides it; then self.show() and the loop reads the next key
ExcPanelKey ==
    /\ menuPc = "excpanel"
    /\ keys # <<>>
    /\ keys' = Tail(keys)
    /\ IF IsAckKey(Head(keys))
         THEN /\ excPanel' = "hidden"
              /\ menuVisible' = TRUE
              /\ menuPc' = "getch"
         ELSE UNCHANGED <<excPanel, menuVisible, menuPc>>
    /\ UNCHANGED <<numRows, sel, caughtExc, escapedExc, escapedFrom>>
    /\ UNCHANGED escVars
    /\ UNCHANGED flowVars
    /\ UNCHANGED bridgeNoKeys
    /\ UNCHANGED outsideMenu

menuCore == <<numRows, sel, excPanel, caughtExc, escapedExc, escapedFrom>>

\* display_all_video_file_data without video files: the DialogBox's run
\* ends on ESC or RETURN, and the callback returns
NoFilesKey ==
    /\ menuPc = "nofiles"
    /\ keys # <<>>
    /\ keys' = Tail(keys)
    /\ IF Head(keys) \in {ESC, RET}
         THEN CallbackReturns
         ELSE UNCHANGED <<menuPc, menuVisible, excPanel, caughtExc, escapedExc,
                          escapedFrom>>
    /\ UNCHANGED <<numRows, sel>>
    /\ UNCHANGED escVars
    /\ UNCHANGED flowVars
    /\ UNCHANGED bridgeNoKeys
    /\ UNCHANGED outsideMenu

\* the list of video files: scrolling_panel.run() returns on ESC (leave the
\* flow) or RETURN (edit the hilighted file); other keys move inside the list
ListKey ==
    /\ menuPc = "list"
    /\ keys # <<>>
    /\ keys' = Tail(keys)
    /\ CASE Head(keys) = ESC ->
              /\ listShown' = FALSE
              /\ CallbackReturns
              /\ UNCHANGED editShown
         [] Head(keys) = RET ->
              /\ listShown' = FALSE
              /\ editShown' = TRUE
              /\ menuPc' = "edit"
              /\ UNCHANGED <<menuVisible, excPanel, caughtExc, escapedExc, escapedFrom>>
         [] OTHER ->
              UNCHANGED <<listShown, editShown, menuPc, menuVisible, excPanel,
                          caughtExc, escapedExc, escapedFrom>>
    /\ UNCHANGED <<numRows, sel, video_files_is_dirty, hasVideos>>
    /\ UNCHANGED escVars
    /\ UNCHANGED bridgeNoKeys
    /\ UNCHANGED outsideMenu

\* exception e leaves edit_individual_video_file: the with block hides the
\* panel; display_all_video_file_data's handler catches it and shows the list
\* again, or it leaves the callback
LeavesEdit(e) ==
    /\ editShown' = FALSE
    /\ IF CatchesUserCancel(e)
         THEN /\ listShown' = TRUE
              /\ menuPc' = "list"
              /\ UNCHANGED <<menuVisible, excPanel, caughtExc, escapedExc, escapedFrom>>
         ELSE /\ Boundary(e)
              /\ UNCHANGED <<listShown, menuVisible>>

\* the edit panel: video_panel.run() returns on ESC (main.py raises its
\* UserCancelException) or on RETURN on a row that starts no fetch
EditKey ==
    /\ menuPc = "edit"
    /\ keys # <<>>
    /\ keys' = Tail(keys)
    /\ IF Head(keys) = ESC
         THEN LeavesEdit(MainUserCancel)
         ELSE UNCHANGED <<editShown, listShown, menuPc, menuVisible, excPanel,
                          caughtExc, escapedExc, escapedFrom>>
    /\ UNCHANGED <<numRows, sel, video_files_is_dirty, hasVideos>>
    /\ UNCHANGED escVars
    /\ UNCHANGED bridgeNoKeys
    /\ UNCHANGED outsideMenu

\* the background fetch of the edit flow: what the task handed to
\* run_cancellable_thread_dialog can do
FetchConfigs == {c \in DialogConfigs : c.op # "notask"}

\* RETURN on a search row: load_imdb_search_info / load_imdb_detail_info call
\* run_cancellable_thread_dialog
EditFetch(c) ==
    /\ menuPc = "edit"
    /\ keys # <<>>
    /\ Head(keys) = RET
    /\ keys' = Tail(keys)
    /\ menuPc' = "fetch"
    /\ StartBridge(c)
    /\ UNCHANGED <<raceFirst, calls>>
    /\ UNCHANGED <<menuVisible, editShown, listShown>>
    /\ UNCHANGED menuCore
    /\ UNCHANGED <<video_files_is_dirty, hasVideos>>
    /\ UNCHANGED escVars
    /\ UNCHANGED outsideMenu

\* the frame of run_cancellable_thread is gone: nothing refers to the thread,
\* the pipe or the selector any more (Part 1 follows an abandoned worker)
BridgeGone ==
    /\ cfg' = NoConfig
    /\ fgPc' = "idle"
    /\ pendingExc' = None
    /\ outcome' = None
    /\ retval' = None
    /\ wkPc' = "none"
    /\ callable_result' = None
    /\ callable_exception_info_tuple' = None
    /\ pipeBytes' = 0
    /\ readOpen' = FALSE
    /\ writeOpen' = FALSE
    /\ dlgShown' = FALSE
    /\ msgPanel' = None
    /\ logged' = FALSE
    /\ slotWrites' = 0
    /\ slotWriters' = {}
    /\ sentinels' = 0
    /\ fgReads' = 0
    /\ fgReadEarly' = FALSE
    /\ pipeSeen' = FALSE
    /\ passedOver' = FALSE
    /\ waitKeys' = FALSE
    /\ cancelAt' = None
    /\ ackKey' = None
    /\ raceSnap' = NoSnap
    /\ UNCHANGED <<raceFirst, calls>>

\* the bridge is done: its exception, or the AttributeError on the value it
\* returned, passes the handlers of edit_individual_video_file and
\* display_all_video_file_data and reaches run_modally
FetchEnd ==
    /\ menuPc = "fetch"
    /\ fgPc = "done"
    /\ BridgeGone
    /\ LET e == FetchException(outcome)
       IN  IF CatchesUserCancel(e)
             THEN /\ menuPc' = "edit"
                  /\ UNCHANGED <<editShown, listShown, menuVisible, excPanel,
                                 caughtExc, escapedExc, escapedFrom>>
             ELSE LeavesEdit(e)
    /\ UNCHANGED <<numRows, sel, video_files_is_dirty, hasVideos>>
    /\ UNCHANGED escVars
    /\ UNCHANGED keys
    /\ UNCHANGED outsideMenu

NextMenu ==
    \/ MenuStart
    \/ MenuEsc
    \/ QuitPanelKey
    \/ MenuReturn
    \/ MenuOtherKey
    \/ GenericEnd
    \/ ExcPanelKey
    \/ NoFilesKey
    \/ ListKey
    \/ EditKey
    \/ \E c \in FetchConfigs : EditFetch(c)
    \/ FetchEnd
    \/ FgCheckAlive
    \/ FgSelect
    \/ FgFinally
    \/ FgInspect
    \/ FgDialogKey
    \/ Worker
    \/ \E k \in MenuKeys : KeyPress(k)

SpecMenu == Init /\ [][NextMenu]_vars


(* ----------------------------- claims, Part 2 ---------------------------- *)

\* run_modally's loop is ready to handle the next key
MenuReadsKey == ENABLED (MenuEsc \/ MenuReturn \/ MenuOtherKey)

C9_QuitConfirm ==
    /\ (lastKey = ESC) => quitAsks = 1
    /\ (lastKey # ESC) => (quitAsks = 0 /\ quitAnswer = None)
    /\ (quitAnswer = "True") <=> (menuPc = "returned")
    /\ (menuPc = "returned") => (~menuVisible /\ lastKey = ESC)
    /\ (menuPc = "quitpanel") => (lastKey = ESC /\ menuVisible /\ sel = selAtEsc)
    /\ (quitAnswer = "False") => (menuPc = "getch" /\ menuVisible /\ sel = selAtEsc)
    /\ (quitAnswer = "False" /\ keys # <<>>) => MenuReadsKey

\* C9 witness: with unsaved data quit_confirm answered false on a menu whose
\* second entry is hilighted, and run_modally is reading keys
C9_Witness ==
    /\ quitAnswer = "False"
    /\ video_files_is_dirty
    /\ sel.row = 1
    /\ menuPc = "getch"
    /\ menuVisible

\* C10: a user-cancellation the bridge raises during a fetch of the edit flow
\* is caught by the flow; it never reaches run_modally's handler and is never
\* shown as an exception.
C10_CancelCaughtInFlow == ~(menuPc = "excpanel" /\ caughtExc = GuiUserCancel)

KEY_BACKSPACE == "KEY_BACKSPACE"
BACKSPACE == "BACKSPACE"

NavKeys == {KEY_UP, KEY_DOWN, KEY_LEFT, KEY_RIGHT, KEY_PPAGE, KEY_NPAGE,
            KEY_HOME, KEY_END}

\* set_rows(new_rows) without a hilighted_row argument
NoRowArg == -2

\* Column(text, width): width 0 stands for no width given
Col(t, w) == [text |-> t, width |-> w]

\* Column.__init__: self.width = width or self.text_length
ColumnWidth(c) == IF c.width # 0 THEN c.width ELSE Len(c.text)

\* the rows and headers the caller hands over: Row(str) has one column,
\* Row(list) one per element
Narrow == <<Col("a", 0)>>
Wide == <<Col("bb", 0), Col("c", 3)>>

\* row lists of every length up to MaxRows: one-column rows, the last of them
\* with two columns or not
RowLists ==
    UNION {{[i \in 1..n |-> IF i = w THEN Wide ELSE Narrow] : w \in {0, n}} :
           n \in 0..MaxRows}

HeaderChoices == {<<>>, <<Col("hhh", 0), Col("h", 0), Col("h", 0)>>}

Max(a, b) == IF a > b THEN a ELSE b

\* (mutant) set_rows keeps the width of the last row that has the column
MergeRowLastWins(cw, row) ==
    [i \in 1..Max(Len(cw), Len(row)) |->
        IF i > Len(row) THEN cw[i] ELSE ColumnWidth(row[i])]

\* set_rows, one row: a column beyond column_widths is appended, another one
\* raises the width kept for its index
MergeRow(cw, row) ==
    [i \in 1..Max(Len(cw), Len(row)) |->
        IF i > Len(cw) THEN ColumnWidth(row[i])
        ELSE IF i > Len(row) THEN cw[i]
        ELSE Max(cw[i], ColumnWidth(row[i]))]

RECURSIVE FoldRows(_, _)
FoldRows(cw, rs) ==
    IF rs = <<>> THEN cw ELSE FoldRows(MergeRow(cw, Head(rs)), Tail(rs))

\* set_rows: column_widths starts from the header's columns and takes in
\* every row
ColumnWidthsOf(hdr, rs) ==
    FoldRows([i \in 1..Len(hdr) |-> ColumnWidth(hdr[i])], rs)

num_rows == Len(rows)
num_cols == Len(column_widths)

\* Python's list index: i counts from the end when negative
IndexOK(i, n) == i >= -n /\ i < n
PyIndex(i, n) == IF i < 0 THEN n + i + 1 ELSE i + 1

RowCols(rs) == [i \in 1..Len(rs) |-> Len(rs[i])]

\* (mutant) set_rows leaves the top row where it was
SetRowsSelKeepsTop(st, n) ==
    [row |-> IF st.row >= n THEN Max(n - 1, 0) ELSE st.row, col |-> 0, top |-> st.top]

\* set_rows on the selection: the hilighted row is clamped from above only,
\* the column and the top row go back to 0
SetRowsSel(st, n) ==
    [row |-> IF st.row >= n THEN Max(n - 1, 0) ELSE st.row, col |-> 0, top |-> 0]

\* set_hilighted_row(new, top): the row is clamped from above only; a top of
\* None or 0 is not taken
SetHilightedRow(st, nr, new, t, n) ==
    [row |-> IF new >= n THEN Max(n - 1, 0) ELSE new,
     col |-> st.col,
     top |-> IF t # 0 THEN t ELSE st.top,
     nr  |-> (nr \/ st.row # new \/ (t # 0 /\ st.top # t))]

\* render's header loop reads column_widths[0] for the header's first column
RenderRaises(hdr, cw) == hdr # <<>> /\ cw = <<>>

\* (mutant) a paint leaves the dirty flag as it was
RenderKeepsFlag(force, nr, hdr, cw) ==
    IF ~(force \/ nr) THEN [painted |-> FALSE, raised |-> FALSE, nr |-> nr]
    ELSE IF RenderRaises(hdr, cw) THEN [painted |-> FALSE, raised |-> TRUE, nr |-> nr]
    ELSE [painted |-> TRUE, raised |-> FALSE, nr |-> nr]

\* render(force) on a panel whose dirty flag is nr: nothing without force or
\* dirt; an IndexError out of the header loop leaves the flag; a paint that
\* reaches the end clears it
Render(force, nr, hdr, cw) ==
    IF ~(force \/ nr) THEN [painted |-> FALSE, raised |-> FALSE, nr |-> nr]
    ELSE IF RenderRaises(hdr, cw) THEN [painted |-> FALSE, raised |-> TRUE, nr |-> nr]
    ELSE [painted |-> TRUE, raised |-> FALSE, nr |-> FALSE]

PanelKeys == NavKeys \cup {ESC, RET, KEY_BACKSPACE, KEY_OTHER}

\* run: curses.KEY_BACKSPACE is read as Keycodes.BACKSPACE
RunKey(k) == IF k = KEY_BACKSPACE THEN BACKSPACE ELSE k

\* run's default stop keys, and a caller's list with one more key
StopKeyLists == {{ESC, RET}, {ESC, RET, BACKSPACE}}

\* history: the operation just done
Note(op, key, painted) == lastOp' = [op |-> op, key |-> key, painted |-> painted]

seqVars == <<seqI0, seqKeys>>

Sel(st) == [row |-> st.row, col |-> st.col, top |-> st.top]

\* an exception leaves the panel's method
PanelRaise(e) == pPc' = "raised" /\ pErr' = e

outsidePanel == <<bridgeVars, menuVars, widgetVars>>

\* ScrollingPanel(rows, header_row, hilighted_row_index, show_immediately);
\* MessagePanel passes hilighted_row_index=-1
PanelNew(rs, hdr, hrow, showNow) ==
    /\ pPc = "none"
    /\ pPc' = "idle"
    /\ header_row' = hdr
    /\ num_header_rows' = IF hdr # <<>> THEN 1 ELSE 0
    /\ rows' = rs
    /\ column_widths' = ColumnWidthsOf(hdr, rs)
    /\ psel' = SetRowsSel([row |-> hrow, col |-> 0, top |-> 0], Len(rs))
    /\ content_height' = ContentHeight(Len(rs), num_header_rows')
    /\ needs_render' = ~showNow
    /\ Note("new", None, showNow)
    /\ UNCHANGED seqVars
    /\ run_result' = None
    /\ UNCHANGED <<stopKeys, pErr, outsidePanel>>

\* set_rows(new_rows, hilighted_row)
PanelSetRows(rs, hr) ==
    /\ pPc = "idle"
    /\ run_result' = None
    /\ LET n  == Len(rs)
           s1 == SetRowsSel(psel, n)
           s2 == IF hr = NoRowArg THEN s1
                 ELSE Sel(SetHilightedRow(s1, TRUE, hr, 0, n))
       IN  /\ rows' = rs
           /\ column_widths' = ColumnWidthsOf(header_row, rs)
           /\ psel' = s2
           /\ content_height' = ContentHeight(n, num_header_rows)
           /\ needs_render' = TRUE
           /\ Note("set_rows", None, FALSE)
           /\ UNCHANGED seqVars
    /\ UNCHANGED <<pPc, header_row, num_header_rows, stopKeys,
                   pErr, outsidePanel>>

\* set_header(header_row)
PanelSetHeader(hdr) ==
    /\ pPc = "idle"
    /\ run_result' = None
    /\ header_row' = hdr
    /\ num_header_rows' = IF hdr # <<>> THEN 1 ELSE 0
    /\ Note("set_header", None, FALSE)
    /\ UNCHANGED seqVars
    /\ UNCHANGED <<pPc, rows, column_widths, psel, needs_render, content_height,
                   stopKeys, pErr, outsidePanel>>

\* set_hilighted_row(new_hilighted_row, top_visible_row_index)
PanelSetHilightedRow(r, t) ==
    /\ pPc = "idle"
    /\ run_result' = None
    /\ LET s1 == SetHilightedRow(psel, needs_render, r, t, num_rows)
       IN  /\ psel' = Sel(s1)
           /\ needs_render' = s1.nr
           /\ Note("set_hilighted_row", None, FALSE)
           /\ UNCHANGED seqVars
    /\ UNCHANGED <<pPc, rows, header_row, num_header_rows, column_widths,
                   content_height, stopKeys, pErr,
                   outsidePanel>>

\* handle_keystroke(key), called by the panel's owner
PanelKeyCore(k) ==
    /\ pPc = "idle"
    /\ run_result' = None
    /\ LET h == HandleKeystroke(psel, k, RowCols(rows), content_height)
       IN  h.col >= -MaxColUnder
    /\ LET h == HandleKeystroke(psel, k, RowCols(rows), content_height)
       IN  IF h.err
             THEN /\ PanelRaise(IndexError)
                  /\ UNCHANGED <<psel, needs_render>>
             ELSE /\ psel' = Sel(h)
                  /\ needs_render' = (needs_render \/ h.changed)
                  /\ UNCHANGED <<pPc, pErr>>
    /\ Note("key", k, FALSE)
    /\ UNCHANGED <<rows, header_row, num_header_rows, column_widths,
                   content_height, stopKeys, outsidePanel>>

PanelKey(k) == PanelKeyCore(k) /\ UNCHANGED seqVars

\* render(force)
PanelRender(force) ==
    /\ pPc = "idle"
    /\ run_result' = None
    /\ LET r == Render(force, needs_render, header_row, column_widths)
       IN  /\ needs_render' = r.nr
           /\ Note(IF force THEN "render_force" ELSE "render", None, r.painted)
           /\ IF r.raised THEN PanelRaise(IndexError) ELSE UNCHANGED <<pPc, pErr>>
    /\ UNCHANGED seqVars
    /\ UNCHANGED <<rows, header_row, num_header_rows, column_widths, psel,
                   content_height, stopKeys, outsidePanel>>

\* run(stop_key_list) up to its first getch: show(), then the render() at the
\* head of the loop
PanelRunStart(stops) ==
    /\ pPc = "idle"
    /\ LET r == Render(TRUE, needs_render, header_row, column_widths)
       IN  /\ needs_render' = r.nr
           /\ Note("run", None, r.painted)
           /\ IF r.raised
                THEN PanelRaise(IndexError) /\ UNCHANGED stopKeys
                ELSE /\ pPc' = "run"
                     /\ stopKeys' = stops
                     /\ UNCHANGED pErr
    /\ run_result' = None
    /\ UNCHANGED seqVars
    /\ UNCHANGED <<rows, header_row, num_header_rows, column_widths, psel,
                   content_height, outsidePanel>>

\* the record run returns
RunResult(key) ==
    [row_index |-> psel.row, col_index |-> psel.col,
     text |-> rows[PyIndex(psel.row, num_rows)]
                  [PyIndex(psel.col, Len(rows[PyIndex(psel.row, num_rows)]))].text,
     key |-> key]

\* the selected cell exists
CellOK ==
    /\ IndexOK(psel.row, num_rows)
    /\ IndexOK(psel.col, Len(rows[PyIndex(psel.row, num_rows)]))

\* (mutant) run hands every key that is not a stop key to handle_keystroke
PanelRunKeyAllKeys(k) ==
    /\ pPc = "run"
    /\ HandleKeystroke(psel, RunKey(k), RowCols(rows), content_height).col >= -MaxColUnder
    /\ LET key == RunKey(k)
           h   == HandleKeystroke(psel, key, RowCols(rows), content_height)
       IN  IF key \notin stopKeys
             THEN IF h.err
                    THEN /\ PanelRaise(IndexError)
                         /\ Note("runkey", key, FALSE)
                         /\ UNCHANGED <<psel, needs_render, seqVars, run_result>>
                    ELSE /\ psel' = Sel(h)
                         /\ LET r == Render(FALSE, needs_render \/ h.changed,
                                            header_row, column_widths)
                            IN  /\ needs_render' = r.nr
                                /\ Note("runkey", key, r.painted)
                                /\ IF r.raised THEN PanelRaise(IndexError)
                                   ELSE UNCHANGED <<pPc, pErr>>
                         /\ UNCHANGED seqVars
                         /\ UNCHANGED run_result
             ELSE IF key \in stopKeys
                    THEN /\ IF CellOK
                              THEN /\ run_result' = RunResult(key)
                                   /\ pPc' = "idle"
                                   /\ UNCHANGED pErr
                              ELSE /\ PanelRaise(IndexError)
                                   /\ UNCHANGED run_result
                         /\ Note("runstop", key, FALSE)
                         /\ UNCHANGED seqVars
                         /\ UNCHANGED <<psel, needs_render>>
                    ELSE /\ Note("runother", key, FALSE)
                         /\ UNCHANGED seqVars
                         /\ UNCHANGED <<psel, needs_render, pPc, pErr, run_result>>
    /\ UNCHANGED <<rows, header_row, num_header_rows, column_widths,
                   content_height, stopKeys, outsidePanel>>

\* one turn of run's loop: a key is read; a navigation key goes to
\* handle_keystroke and the loop renders again; a stop key ends run; any other
\* key only brings the loop round
PanelRunKey(k) ==
    /\ pPc = "run"
    /\ HandleKeystroke(psel, RunKey(k), RowCols(rows), content_height).col >= -MaxColUnder
    /\ LET key == RunKey(k)
           h   == HandleKeystroke(psel, key, RowCols(rows), content_height)
       IN  IF key \in NavKeys
             THEN IF h.err
                    THEN /\ PanelRaise(IndexError)
                         /\ Note("runkey", key, FALSE)
                         /\ UNCHANGED <<psel, needs_render, seqVars, run_result>>
                    ELSE /\ psel' = Sel(h)
                         /\ LET r == Render(FALSE, needs_render \/ h.changed,
                                            header_row, column_widths)
                            IN  /\ needs_render' = r.nr
                                /\ Note("runkey", key, r.painted)
                                /\ IF r.raised THEN PanelRaise(IndexError)
                                   ELSE UNCHANGED <<pPc, pErr>>
                         /\ UNCHANGED seqVars
                         /\ UNCHANGED run_result
             ELSE IF key \in stopKeys
                    THEN /\ IF CellOK
                              THEN /\ run_result' = RunResult(key)
                                   /\ pPc' = "idle"
                                   /\ UNCHANGED pErr
                              ELSE /\ PanelRaise(IndexError)
                                   /\ UNCHANGED run_result
                         /\ Note("runstop", key, FALSE)
                         /\ UNCHANGED seqVars
                         /\ UNCHANGED <<psel, needs_render>>
                    ELSE /\ Note("runother", key, FALSE)
                         /\ UNCHANGED seqVars
                         /\ UNCHANGED <<psel, needs_render, pPc, pErr, run_result>>
    /\ UNCHANGED <<rows, header_row, num_header_rows, column_widths,
                   content_height, stopKeys, outsidePanel>>

NextPanel ==
    \/ \E rs \in RowLists, hdr \in HeaderChoices, hrow \in {-1, 0}, showNow \in BOOLEAN :
          PanelNew(rs, hdr, hrow, showNow)
    \/ \E rs \in RowLists, hr \in {NoRowArg, -1, 0, MaxRows - 1} : PanelSetRows(rs, hr)
    \/ \E hdr \in HeaderChoices : PanelSetHeader(hdr)
    \/ \E r \in -1..MaxRows, t \in {0, 1} : PanelSetHilightedRow(r, t)
    \/ \E k \in NavKeys : PanelKey(k)
    \/ \E force \in BOOLEAN : PanelRender(force)
    \/ \E stops \in StopKeyLists : PanelRunStart(stops)
    \/ \E k \in PanelKeys : PanelRunKey(k)

SpecPanel == Init /\ [][NextPanel]_vars


(* Up/Down keys handled one after the other, with the row the sequence began *)
(* at and its keys kept as history                                            *)

SeqIdle == seqKeys = <<>>

SeqNew(rs, hdr, hrow) == SeqIdle /\ PanelNew(rs, hdr, hrow, TRUE)

SeqSetRows(rs, hr) == SeqIdle /\ PanelSetRows(rs, hr)

SeqSetHilightedRow(r, t) == SeqIdle /\ PanelSetHilightedRow(r, t)

\* handle_keystroke(KEY_UP) or handle_keystroke(KEY_DOWN)
PanelUpDown(k) ==
    /\ Len(seqKeys) < MaxSeq
    /\ PanelKeyCore(k)
    /\ IF pPc' = "idle"
         THEN /\ seqKeys' = Append(seqKeys, k)
              /\ seqI0' = IF SeqIdle THEN psel.row ELSE seqI0
         ELSE UNCHANGED seqVars

NextSeq ==
    \/ \E rs \in RowLists, hdr \in HeaderChoices, hrow \in {-1, 0} : SeqNew(rs, hdr, hrow)
    \/ \E rs \in RowLists, hr \in {NoRowArg, -1, 0, MaxRows - 1} : SeqSetRows(rs, hr)
    \/ \E r \in -1..MaxRows, t \in {0, 1} : SeqSetHilightedRow(r, t)
    \/ \E k \in {KEY_UP, KEY_DOWN} : PanelUpDown(k)

SpecSeq == Init /\ [][NextSeq]_vars

\* the selection state is consistent with the rows: the hilighted row exists
\* and lies in the visible window
RowInRange == 0 <= psel.row /\ psel.row <= num_rows - 1
RowInWindow == psel.top <= psel.row /\ psel.row < psel.top + content_height

\* C12: on a constructed panel holding at least one row, after construction
\* and after any sequence of set_rows, set_hilighted_row and handle_keystroke
\* calls, 0 <= hilighted_row_index <= num_rows-1 and the hilighted row lies in
\* [top_visible_row_index, top_visible_row_index + content_height).
C12_SelectionConsistent ==
    (pPc \in {"idle", "run"} /\ num_rows >= 1) => (RowInRange /\ RowInWindow)

\* C13: after every handle_keystroke call with a navigation key on a panel
\* with num_rows >= 1 and content_height >= 1, whatever the selection state
\* was before, the hilighted row lies in the visible window and in
\* [0, num_rows-1], and top_visible_row_index lies in [0, num_rows-1].
C13_KeystrokeRestores ==
    (/\ lastOp.op \in {"key", "runkey"}
     /\ pPc \in {"idle", "run"}
     /\ num_rows >= 1
     /\ content_height >= 1)
    => (/\ RowInRange
        /\ RowInWindow
        /\ 0 <= psel.top /\ psel.top <= num_rows - 1)

C13_Witness ==
    /\ lastOp = [op |-> "key", key |-> KEY_NPAGE, painted |-> FALSE]
    /\ pPc = "idle"
    /\ num_rows > content_height
    /\ content_height >= 1
    /\ psel.top > 0
    /\ psel.row = num_rows - 1

Clamp(x, lo, hi) == IF x < lo THEN lo ELSE IF x > hi THEN hi ELSE x

StepOf(k) == IF k = KEY_DOWN THEN 1 ELSE -1

\* the row a sequence of Up/Down keys ends at when every step is clamped
RECURSIVE FoldClamp(_, _, _)
FoldClamp(i, ks, n) ==
    IF ks = <<>> THEN i
    ELSE FoldClamp(Clamp(i + StepOf(Head(ks)), 0, n - 1), Tail(ks), n)

\* the Downs minus the Ups of a sequence
NetSteps(ks) ==
    Cardinality({i \in 1..Len(ks) : ks[i] = KEY_DOWN})
      - Cardinality({i \in 1..Len(ks) : ks[i] = KEY_UP})

KeyStep(k) == lastOp'.op = "key" /\ lastOp'.key = k /\ pPc' = "idle"

\* C15: Up while row 0 is hilighted and Down while the last row is hilighted
\* leave hilighted_row_index, hilighted_col_index and top_visible_row_index
\* unchanged and do not set needs_render.
C15_EdgeKeysNoChange ==
    [][(\/ KeyStep(KEY_UP) /\ psel.row = 0
        \/ KeyStep(KEY_DOWN) /\ psel.row = num_rows - 1)
       => (psel' = psel /\ needs_render' = needs_render)]_vars

\* what a Left/Right key is to do: the row and the window stay, the column
\* moves by one inside the hilighted row and wraps at its ends
LeftRightEffect ==
    LET nc == Len(rows'[PyIndex(psel'.row, num_rows')])
        c1 == IF lastOp'.key = KEY_LEFT THEN psel.col - 1 ELSE psel.col + 1
    IN  /\ psel'.row = psel.row
        /\ psel'.top = psel.top
        /\ 0 <= psel'.col /\ psel'.col < nc
        /\ psel'.col = IF c1 < 0 THEN nc - 1 ELSE IF c1 >= nc THEN 0 ELSE c1

\* C16: a Left/Right keystroke never changes the row index or the visible
\* window; the column index moves by one and wraps (Left at column 0 to the
\* last column of the current row, Right at the last column to 0), always
\* within the column count of the current row.
C16_LeftRightWraps ==
    [][(KeyStep(KEY_LEFT) \/ KeyStep(KEY_RIGHT)) => LeftRightEffect]_vars

\* the text of the cell at (r, c), indices below 0 counting from the end
CellText(r, c) ==
    LET row == IF r >= 0 THEN rows[r + 1] ELSE rows[num_rows + r + 1]
    IN  IF c >= 0 THEN row[c + 1].text ELSE row[Len(row) + c + 1].text

\* C17: run returns only when a key of the stop-key list is read, and the
\* record it returns holds the hilighted row index, the hilighted column
\* index, the text of that cell and the key; a key that is neither a
\* navigation key nor a stop key leaves the selection state and needs_render
\* unchanged and run goes on.
C17_RunStopsOnStopKey ==
    [][pPc = "run" =>
         /\ pPc' = "idle" =>
              /\ lastOp'.key \in stopKeys
              /\ run_result' = [row_index |-> psel.row, col_index |-> psel.col,
                                text |-> CellText(psel.row, psel.col),
                                key |-> lastOp'.key]
              /\ psel' = psel
         /\ lastOp'.key \notin (NavKeys \cup stopKeys) =>
              /\ psel' = psel
              /\ needs_render' = needs_render
              /\ pPc' = "run"]_vars

C17_Witness ==
    /\ lastOp.op = "runstop"
    /\ pPc = "idle"
    /\ run_result.key = BACKSPACE
    /\ run_result.row_index = 1
    /\ run_result.col_index = 1
    /\ run_result.text = "c"

\* C18: a render() that follows a render call with no mutation in between
\* paints nothing and leaves needs_render false; render(force=True) always
\* paints, whatever needs_render is; after any paint needs_render is false.
C18_RenderIdempotent ==
    [][/\ (lastOp.op \in {"render", "render_force"} /\ lastOp'.op = "render")
            => (~lastOp'.painted /\ ~needs_render')
       /\ lastOp'.op = "render_force" => lastOp'.painted
       /\ lastOp'.painted => ~needs_render']_vars

\* C19: after a call to set_rows, set_header or set_hilighted_row the panel
\* is marked dirty (needs_render is true).
C19_MutatorsMarkDirty ==
    lastOp.op \in {"set_rows", "set_header", "set_hilighted_row"} => needs_render

\* the header, when one is set, and the rows
HeaderAndRows ==
    (IF header_row # <<>> THEN {header_row} ELSE {}) \cup {rows[i] : i \in 1..num_rows}

MaxOf(S) == CHOOSE m \in S : \A x \in S : x <= m

\* C20: after set_rows, column_widths[i] is the maximum of column[i].width
\* over the rows that have a column i, the header row included when one is
\* set, and num_cols is the largest column count among the header and the
\* rows.
C20_ColumnWidths ==
    (lastOp.op \in {"new", "set_rows"} /\ pPc = "idle")
    => /\ num_cols = IF HeaderAndRows = {} THEN 0
                     ELSE MaxOf({Len(r) : r \in HeaderAndRows})
       /\ \A i \in 1..num_cols :
             column_widths[i] =
                MaxOf({ColumnWidth(r[i]) : r \in {x \in HeaderAndRows : Len(x) >= i}})

C20_Witness ==
    /\ lastOp.op = "set_rows"
    /\ pPc = "idle"
    /\ header_row # <<>>
    /\ num_rows = MaxRows
    /\ Len(rows[num_rows]) = 2
    /\ column_widths = <<3, 3, 1>>


(* ======================================================================== *)
(* Part 4: the other widgets                                                *)
(* ======================================================================== *)

(* ------------------------------ set_geometry ---------------------------- *)

\* a height or width handed to the constructor: unset (None), a count of
\* cells (>= 1), an inset from the full screen (<= 0), a fraction of it
Unset == [kind |-> "unset", v |-> 0]
HeightInputs ==
    {Unset}
      \cup {[kind |-> "cells", v |-> v] : v \in 1..ScreenRows + 2}
      \cup {[kind |-> "inset", v |-> v] : v \in -ScreenRows..0}
      \cup {[kind |-> "fraction", v |-> v] : v \in 1..FracDen - 1}
WidthInputs ==
    {Unset}
      \cup {[kind |-> "cells", v |-> v] : v \in 1..ScreenCols + 2}
      \cup {[kind |-> "inset", v |-> v] : v \in -ScreenCols..0}
      \cup {[kind |-> "fraction", v |-> v] : v \in 1..FracDen - 1}

\* set_geometry's height or width: inp the input, screen the screen's size,
\* content the size the content asks for
GeometrySize(inp, screen, content) ==
    CASE inp.kind = "unset"    -> Min(screen, content)
      [] inp.kind = "fraction" -> Min(screen, (screen * inp.v) \div FracDen)
      [] inp.kind = "inset"    -> screen + 2 * inp.v
      [] OTHER                 -> inp.v

\* ScrollingPanel(rows, height=h, width=w): set_geometry for n one-column rows
\* of text width tw, no header, inner_padding 0
SetGeometry(h, w, n, tw) ==
    /\ geo.pc = "none"
    /\ geo' = [pc |-> "set", hIn |-> h, wIn |-> w,
               height |-> GeometrySize(h, ScreenRows, n + 2),
               width |-> GeometrySize(w, ScreenCols, tw + 4)]
    /\ UNCHANGED <<bridgeVars, menuVars, panelVars, ip, dlg, rowObj>>

NextGeom ==
    \E h \in HeightInputs, w \in WidthInputs, n \in 0..MaxRows, tw \in 0..2 :
        SetGeometry(h, w, n, tw)

SpecGeom == Init /\ [][NextGeom]_vars

\* C21: after set_geometry, for every height and width input (unset, cell
\* count, negative inset, fraction), the panel's height is at most the screen
\* height, its width at most the screen width, and both are non-negative.
C21_GeometryClamped ==
    geo.pc = "set" =>
        /\ 0 <= geo.height /\ geo.height <= ScreenRows
        /\ 0 <= geo.width /\ geo.width <= ScreenCols

(* ------------------------------- InputPanel ----------------------------- *)

KEY_DC == "KEY_DC"
\* a key code above 255 that is none of the editing keys
KEY_F1 == "KEY_F1"

\* characters: two of the default allowed_input_chars and one outside it
Chars == {"a", "b", "|"}

\* the keys with a code in 0..255
ByteKeys == Chars \cup {ESC, RET, BACKSPACE}

InputKeys == Chars \cup {ESC, RET, BACKSPACE, KEY_BACKSPACE, KEY_DC, KEY_LEFT,
                         KEY_RIGHT, KEY_HOME, KEY_END, KEY_F1}

\* allowed_input_chars: the default list, a caller's list
AllowLists == {{"a", "b"}, {"a"}}

\* default_value: None or a string
DefaultTexts == UNION {[1..n -> {"a", "b"}] : n \in 0..MaxText}

\* entry_width: 0 stands for None
EntryWidths == {0, 2, 3}

\* InputPanel.__init__: the cursor behind the text, the first displayed
\* character
InputInit(dflt, ew, allow) ==
    LET w == IF ew # 0 THEN ew ELSE ScreenCols \div 4
        c == Len(dflt)
    IN  [pc |-> "idle", text |-> dflt, cursor |-> c,
         first |-> IF c < w THEN 0 ELSE c - w,
         entry_width |-> w, allowed |-> allow, needs_render |-> TRUE,
         last |-> None, painted |-> FALSE]

\* Python's text[:i] and text[i:]
Upto(t, i) == SubSeq(t, 1, Min(i, Len(t)))
From(t, i) == SubSeq(t, i + 1, Len(t))

\* (mutant) handle_keystroke inserts every character, allowed or not
InputHandleAnyChar(st, k) ==
    LET c == st.cursor
        f == st.first
        w == st.entry_width
        t == st.text
    IN  CASE k \in {KEY_BACKSPACE, BACKSPACE} ->
               IF c > 0
                 THEN [st EXCEPT !.text = Upto(t, c - 1) \o From(t, c),
                                 !.cursor = c - 1,
                                 !.first = IF c - 1 < f THEN c - 1 ELSE f,
                                 !.needs_render = TRUE]
                 ELSE st
          [] k = KEY_DC ->
               IF c >= 0
                 THEN [st EXCEPT !.text = Upto(t, c) \o From(t, c + 1),
                                 !.needs_render = TRUE]
                 ELSE st
          [] k = KEY_LEFT ->
               IF c > 0
                 THEN [st EXCEPT !.cursor = c - 1,
                                 !.first = IF c - 1 < f THEN c - 1 ELSE f,
                                 !.needs_render = TRUE]
                 ELSE st
          [] k = KEY_RIGHT ->
               IF c < Len(t)
                 THEN [st EXCEPT !.cursor = c + 1,
                                 !.first = IF c + 1 - f >= w THEN f + 1 ELSE f,
                                 !.needs_render = TRUE]
                 ELSE st
          [] k = KEY_HOME ->
               [st EXCEPT !.cursor = 0, !.first = 0, !.needs_render = TRUE]
          [] k = KEY_END ->
               [st EXCEPT !.cursor = Len(t),
                          !.first = IF Len(t) < w THEN 0 ELSE Len(t) - w,
                          !.needs_render = TRUE]
          [] k \in ByteKeys \ {BACKSPACE} ->
               IF k \in Chars
                 THEN [st EXCEPT !.text = Upto(t, c) \o <<k>> \o From(t, c),
                                 !.cursor = c + 1,
                                 !.first = IF c + 1 - f >= w THEN f + 1 ELSE f,
                                 !.needs_render = TRUE]
                 ELSE st
          [] OTHER -> st

\* (mutant) an inserted character does not move the first displayed character
InputHandleNoScroll(st, k) ==
    LET c == st.cursor
        f == st.first
        w == st.entry_width
        t == st.text
    IN  CASE k \in {KEY_BACKSPACE, BACKSPACE} ->
               IF c > 0
                 THEN [st EXCEPT !.text = Upto(t, c - 1) \o From(t, c),
                                 !.cursor = c - 1,
                                 !.first = IF c - 1 < f THEN c - 1 ELSE f,
                                 !.needs_render = TRUE]
                 ELSE st
          [] k = KEY_DC ->
               IF c >= 0
                 THEN [st EXCEPT !.text = Upto(t, c) \o From(t, c + 1),
                                 !.needs_render = TRUE]
                 ELSE st
          [] k = KEY_LEFT ->
               IF c > 0
                 THEN [st EXCEPT !.cursor = c - 1,
                                 !.first = IF c - 1 < f THEN c - 1 ELSE f,
                                 !.needs_render = TRUE]
                 ELSE st
          [] k = KEY_RIGHT ->
               IF c < Len(t)
                 THEN [st EXCEPT !.cursor = c + 1,
                                 !.first = IF c + 1 - f >= w THEN f + 1 ELSE f,
                                 !.needs_render = TRUE]
                 ELSE st
          [] k = KEY_HOME ->
               [st EXCEPT !.cursor = 0, !.first = 0, !.needs_render = TRUE]
          [] k = KEY_END ->
               [st EXCEPT !.cursor = Len(t),
                          !.first = IF Len(t) < w THEN 0 ELSE Len(t) - w,
                          !.needs_render = TRUE]
          [] k \in ByteKeys \ {BACKSPACE} ->
               IF k \in st.allowed
                 THEN [st EXCEPT !.text = Upto(t, c) \o <<k>> \o From(t, c),
                                 !.cursor = c + 1,
                                 !.needs_render = TRUE]
                 ELSE st
          [] OTHER -> st

\* (mutant) Left moves the cursor and leaves the first displayed character
InputHandleLeftKeepsWindow(st, k) ==
    LET c == st.cursor
        f == st.first
        w == st.entry_width
        t == st.text
    IN  CASE k \in {KEY_BACKSPACE, BACKSPACE} ->
               IF c > 0
                 THEN [st EXCEPT !.text = Upto(t, c - 1) \o From(t, c),
                                 !.cursor = c - 1,
                                 !.first = IF c - 1 < f THEN c - 1 ELSE f,
                                 !.needs_render = TRUE]
                 ELSE st
          [] k = KEY_DC ->
               IF c >= 0
                 THEN [st EXCEPT !.text = Upto(t, c) \o From(t, c + 1),
                                 !.needs_render = TRUE]
                 ELSE st
          [] k = KEY_LEFT ->
               IF c > 0
                 THEN [st EXCEPT !.cursor = c - 1,
                                 !.needs_render = TRUE]
                 ELSE st
          [] k = KEY_RIGHT ->
               IF c < Len(t)
                 THEN [st EXCEPT !.cursor = c + 1,
                                 !.first = IF c + 1 - f >= w THEN f + 1 ELSE f,
                                 !.needs_render = TRUE]
                 ELSE st
          [] k = KEY_HOME ->
               [st EXCEPT !.cursor = 0, !.first = 0, !.needs_render = TRUE]
          [] k = KEY_END ->
               [st EXCEPT !.cursor = Len(t),
                          !.first = IF Len(t) < w THEN 0 ELSE Len(t) - w,
                          !.needs_render = TRUE]
          [] k \in ByteKeys \ {BACKSPACE} ->
               IF k \in st.allowed
                 THEN [st EXCEPT !.text = Upto(t, c) \o <<k>> \o From(t, c),
                                 !.cursor = c + 1,
                                 !.first = IF c + 1 - f >= w THEN f + 1 ELSE f,
                                 !.needs_render = TRUE]
                 ELSE st
          [] OTHER -> st

\* InputPanel.handle_keystroke
InputHandle(st, k) ==
    LET c == st.cursor
        f == st.first
        w == st.entry_width
        t == st.text
    IN  CASE k \in {KEY_BACKSPACE, BACKSPACE} ->
               IF c > 0
                 THEN [st EXCEPT !.text = Upto(t, c - 1) \o From(t, c),
                                 !.cursor = c - 1,
                                 !.first = IF c - 1 < f THEN c - 1 ELSE f,
                                 !.needs_render = TRUE]
                 ELSE st
          [] k = KEY_DC ->
               IF c >= 0
                 THEN [st EXCEPT !.text = Upto(t, c) \o From(t, c + 1),
                                 !.needs_render = TRUE]
                 ELSE st
          [] k = KEY_LEFT ->
               IF c > 0
                 THEN [st EXCEPT !.cursor = c - 1,
                                 !.first = IF c - 1 < f THEN c - 1 ELSE f,
                                 !.needs_render = TRUE]
                 ELSE st
          [] k = KEY_RIGHT ->
               IF c < Len(t)
                 THEN [st EXCEPT !.cursor = c + 1,
                                 !.first = IF c + 1 - f >= w THEN f + 1 ELSE f,
                                 !.needs_render = TRUE]
                 ELSE st
          [] k = KEY_HOME ->
               [st EXCEPT !.cursor = 0, !.first = 0, !.needs_render = TRUE]
          [] k = KEY_END ->
               [st EXCEPT !.cursor = Len(t),
                          !.first = IF Len(t) < w THEN 0 ELSE Len(t) - w,
                          !.needs_render = TRUE]
          [] k \in ByteKeys \ {BACKSPACE} ->
               IF k \in st.allowed
                 THEN [st EXCEPT !.text = Upto(t, c) \o <<k>> \o From(t, c),
                                 !.cursor = c + 1,
                                 !.first = IF c + 1 - f >= w THEN f + 1 ELSE f,
                                 !.needs_render = TRUE]
                 ELSE st
          [] OTHER -> st

\* InputPanel.render()
InputRender(st) ==
    IF st.needs_render THEN [st EXCEPT !.needs_render = FALSE, !.painted = TRUE]
    ELSE [st EXCEPT !.painted = FALSE]

outsideInput == <<bridgeVars, menuVars, panelVars, geo, dlg, rowObj>>

\* InputPanel(prompt, default_value, entry_width, allowed_input_chars)
InputNew(dflt, ew, allow) ==
    /\ ip.pc = "none"
    /\ ip' = InputInit(dflt, ew, allow)
    /\ UNCHANGED outsideInput

\* handle_keystroke(key), called by the panel's owner
InputKey(k) ==
    /\ ip.pc = "idle"
    /\ Len(ip.text) < MaxText \/ k \notin ip.allowed
    /\ ip' = [InputHandle(ip, k) EXCEPT !.last = k, !.painted = FALSE]
    /\ UNCHANGED outsideInput

\* run() up to its first getch: show(), then the render() at the head of the
\* loop
InputRunStart ==
    /\ ip.pc = "idle"
    /\ ip' = [InputRender(ip) EXCEPT !.pc = "run", !.last = None]
    /\ UNCHANGED outsideInput

\* one turn of run's loop: a key is read; ESCAPE and RETURN end run, any
\* other key goes to handle_keystroke and the loop renders again
InputRunKey(k) ==
    /\ ip.pc = "run"
    /\ Len(ip.text) < MaxText \/ k \notin ip.allowed
    /\ ip' = IF k \in {ESC, RET}
               THEN [ip EXCEPT !.pc = "returned", !.last = k, !.painted = FALSE]
               ELSE [InputRender(InputHandle(ip, k)) EXCEPT !.last = k]
    /\ UNCHANGED outsideInput

\* what run returned: None for ESCAPE, the text for RETURN
InputResult == IF ip.last = ESC THEN None ELSE ip.text

NextInput ==
    \/ \E dflt \in DefaultTexts, ew \in EntryWidths, allow \in AllowLists :
          InputNew(dflt, ew, allow)
    \/ \E k \in InputKeys : InputKey(k)
    \/ InputRunStart
    \/ \E k \in InputKeys : InputRunKey(k)

SpecInput == Init /\ [][NextInput]_vars

\* the characters the panel displays: [first, first + entry_width)
CursorInWindow ==
    ip.first <= ip.cursor /\ ip.cursor < ip.first + ip.entry_width

\* C22: in InputPanel, after construction with any default text and after
\* every keystroke, the visible window [first_displayed_char_index,
\* first_displayed_char_index + entry_width) contains cursor_index.
C22_CursorInWindow ==
    ip.pc \in {"idle", "run"} => CursorInWindow

\* text t with character ch put in before position c (0-based)
Inserted(t, c, ch, t2) ==
    /\ Len(t2) = Len(t) + 1
    /\ t2[c + 1] = ch
    /\ \A i \in 1..c : t2[i] = t[i]
    /\ \A i \in c + 1..Len(t) : t2[i + 1] = t[i]

\* text t without the character at position c (0-based)
Removed(t, c, t2) ==
    /\ Len(t2) = Len(t) - 1
    /\ \A i \in 1..c : t2[i] = t[i]
    /\ \A i \in c + 1..Len(t2) : t2[i] = t[i + 1]

\* the step is a handle_keystroke(k) call
InputKeyStep(k) ==
    /\ ip.pc \in {"idle", "run"}
    /\ ip'.pc = ip.pc
    /\ ip'.last = k

\* C23: handle_keystroke inserts a key's character at the cursor (text one
\* longer, cursor advanced by one) exactly when the character is in the
\* allow-list; Backspace removes exactly the character before the cursor and
\* Delete exactly the character at the cursor; every other key that is not
\* Left/Right/Home/End, Backspace at cursor 0 and Delete at the end of the
\* text leave the text unchanged.
C23_TextEdits ==
    [][\A k \in InputKeys : InputKeyStep(k) =>
          LET t == ip.text
              c == ip.cursor
              t2 == ip'.text
          IN  CASE k \in Chars /\ k \in ip.allowed ->
                     Inserted(t, c, k, t2) /\ ip'.cursor = c + 1
                [] k \in Chars /\ k \notin ip.allowed ->
                     t2 = t /\ ip'.cursor = c
                [] k \in {KEY_BACKSPACE, BACKSPACE} ->
                     IF c > 0 THEN Removed(t, c - 1, t2) ELSE t2 = t
                [] k = KEY_DC ->
                     IF c < Len(t) THEN Removed(t, c, t2) ELSE t2 = t
                [] k \in {KEY_LEFT, KEY_RIGHT, KEY_HOME, KEY_END} -> TRUE
                [] OTHER -> t2 = t]_vars

C23_Witness ==
    /\ ip.pc = "idle"
    /\ ip.last = "a"
    /\ ip.text = <<"b", "a", "b">>
    /\ ip.cursor = 2

(* -------------------------------- DialogBox ----------------------------- *)

DialogKeys == {KEY_LEFT, KEY_RIGHT, ESC, RET, KEY_OTHER}

ButtonLabels == <<"OK", "Continue", "Cancel", "Yes", "No">>

\* buttons_text: ['OK'] (the default), ['Continue', 'Cancel'] (main.py) and
\* the other runs of up to MaxButtons labels
ButtonLists ==
    UNION {{SubSeq(ButtonLabels, a, b) :
                b \in a..Min(Len(ButtonLabels), a + MaxButtons - 1)} :
           a \in 1..Len(ButtonLabels)}

\* set_prompt_and_buttons: f' [ {b} ] '
FormatButton(b) == <<" [ ", b, " ] ">>

\* the result of a run that reads ESCAPE
CancelResult == ""

\* DialogBox(prompt, buttons_text, show_immediately)
DialogInit(labels, showNow) ==
    [pc |-> "idle",
     raw_buttons_text |-> labels,
     buttons_text |-> [i \in 1..Len(labels) |-> FormatButton(labels[i])],
     num_buttons |-> Len(labels),
     hilighted_button_index |-> 0,
     needs_render |-> ~showNow,
     single_key |-> FALSE, last |-> None, result |-> None]

\* (mutant) RETURN gives the label as it is displayed
DialogResultFormatted(st, k) ==
    CASE k = ESC -> CancelResult
      [] k = RET
           -> st.buttons_text[st.hilighted_button_index + 1]
      [] OTHER -> None

\* run's result for key k: '' for ESCAPE, the raw label of the hilighted
\* button for RETURN, None for another key
DialogResult(st, k) ==
    CASE k = ESC -> CancelResult
      [] k = RET
           -> st.raw_buttons_text[st.hilighted_button_index + 1]
      [] OTHER -> None

\* run's move of the hilighted button for key k
DialogMove(st, k) ==
    CASE k = KEY_LEFT /\ st.hilighted_button_index > 0
           -> st.hilighted_button_index - 1
      [] k = KEY_RIGHT /\ st.hilighted_button_index < st.num_buttons - 1
           -> st.hilighted_button_index + 1
      [] OTHER -> st.hilighted_button_index

outsideDialog == <<bridgeVars, menuVars, panelVars, geo, ip, rowObj>>

DialogNew(labels, showNow) ==
    /\ dlg.pc = "none"
    /\ dlg' = DialogInit(labels, showNow)
    /\ UNCHANGED outsideDialog

\* run(single_key) up to its first getch: show() and render()
DialogRunStart(single) ==
    /\ dlg.pc \in {"idle", "returned"}
    /\ dlg' = [dlg EXCEPT !.pc = "run", !.needs_render = FALSE,
                          !.single_key = single, !.last = None, !.result = None]
    /\ UNCHANGED outsideDialog

\* one turn of run's loop: a key is read, the hilighted button moves or the
\* result is set, the dialog is rendered if it needs it, and run returns if
\* there is a result or single_key is set
DialogRunKey(k) ==
    /\ dlg.pc = "run"
    /\ LET r == DialogResult(dlg, k)
       IN  dlg' = [dlg EXCEPT !.hilighted_button_index = DialogMove(dlg, k),
                              !.needs_render = FALSE,
                              !.last = k,
                              !.result = r,
                              !.pc = IF dlg.single_key \/ r # None
                                       THEN "returned" ELSE "run"]
    /\ UNCHANGED outsideDialog

NextDialog ==
    \/ \E labels \in ButtonLists, showNow \in BOOLEAN : DialogNew(labels, showNow)
    \/ \E single \in BOOLEAN : DialogRunStart(single)
    \/ \E k \in DialogKeys : DialogRunKey(k)

SpecDialog == Init /\ [][NextDialog]_vars

\* C24: in DialogBox.run the hilighted button index stays in
\* [0, num_buttons-1] (Left at the first button and Right at the last do
\* nothing); RETURN returns the unformatted label of the hilighted button and
\* ESCAPE the empty string; no other key ends run unless single_key is set.
C24_DialogButtons ==
    [][dlg.pc = "run" =>
         LET i == dlg.hilighted_button_index
             i2 == dlg'.hilighted_button_index
             k == dlg'.last
         IN  /\ 0 <= i2 /\ i2 <= dlg'.num_buttons - 1
             /\ (k = KEY_LEFT /\ i = 0) => i2 = i
             /\ (k = KEY_RIGHT /\ i = dlg.num_buttons - 1) => i2 = i
             /\ k = RET => (/\ dlg'.pc = "returned"
                            /\ dlg'.result = dlg.raw_buttons_text[i + 1])
             /\ k = ESC => (dlg'.pc = "returned" /\ dlg'.result = CancelResult)
             /\ (k \notin {RET, ESC} /\ ~dlg.single_key) => dlg'.pc = "run"]_vars

C24_Witness ==
    /\ dlg.pc = "returned"
    /\ dlg.last = RET
    /\ dlg.num_buttons = 2
    /\ dlg.hilighted_button_index = 1
    /\ dlg.result = "Cancel"
    /\ ~dlg.single_key

(* ------------------- Row construction and ingestion --------------------- *)

\* The caller's objects.  A Column object is named by its place in the heap,
\* which holds its text; a Row object by the list of its Column objects.
PyStr(t) == [type |-> "str", v |-> t]
PyInt(n) == [type |-> "int", n |-> n]
PyNone == [type |-> "NoneType"]
PyColumn(id) == [type |-> "Column", id |-> id]
PyRow(ids) == [type |-> "Row", columns |-> ids]
PyList(items) == [type |-> "list", items |-> items]

\* the Column objects the caller made before the call
CallerHeap == <<"ab", "c">>

\* what the caller may hand to Row(...), set_header or set_prompt
RowArgs ==
    {PyStr("x"), PyStr(""), PyColumn(1), PyRow(<<1>>), PyRow(<<1, 2>>),
     PyInt(42), PyInt(0), PyNone,
     PyList(<<PyStr("x")>>), PyList(<<PyColumn(1), PyStr("x")>>),
     PyList(<<PyInt(42), PyColumn(2)>>), PyList(<<PyRow(<<2>>), PyColumn(1)>>)}

\* what the caller may hand to set_rows: a list of rows
RowsArgs ==
    {PyList(<<a>>) : a \in RowArgs} \cup
    {PyList(<<PyRow(<<1, 2>>), a>>) : a \in {PyStr("x"), PyColumn(1), PyRow(<<2>>)}}

Digits == <<"0", "1", "2", "3", "4", "5", "6", "7", "8", "9">>

RECURSIVE IntText(_)
IntText(n) ==
    IF n < 10 THEN Digits[n + 1] ELSE IntText(n \div 10) \o Digits[(n % 10) + 1]

\* str(x)
StrOf(x) ==
    CASE x.type = "str" -> x.v
      [] x.type = "int" -> IntText(x.n)
      [] x.type = "NoneType" -> "None"
      [] x.type = "list" -> "[...]"
      [] OTHER -> "<" \o x.type \o " object>"

\* Python's truth value
Truthy(x) ==
    CASE x.type = "str" -> x.v # ""
      [] x.type = "int" -> x.n # 0
      [] x.type = "NoneType" -> FALSE
      [] x.type = "list" -> Len(x.items) > 0
      [] OTHER -> TRUE

\* a new Column object with text t
NewColumn(h, t) == [columns |-> <<Len(h) + 1>>, heap |-> Append(h, t)]

\* Row.__init__ for a list: a Column is deep-copied, a str becomes a Column,
\* anything else becomes Column(text=str(rc))
RECURSIVE RowFromList(_, _)
RowFromList(items, h) ==
    IF Len(items) = 0 THEN [columns |-> <<>>, heap |-> h]
    ELSE LET rest == RowFromList(SubSeq(items, 1, Len(items) - 1), h)
             rc == items[Len(items)]
             text == CASE rc.type = "Column" -> rest.heap[rc.id]
                       [] rc.type = "str" -> rc.v
                       [] OTHER -> StrOf(rc)
         IN  [columns |-> Append(rest.columns, Len(rest.heap) + 1),
              heap |-> Append(rest.heap, text)]

\* Row.__init__(row_content): the columns of the new Row and the heap after it
RowInit(row_content, h) ==
    CASE row_content.type = "Column" -> NewColumn(h, h[row_content.id])
      [] row_content.type = "str" -> NewColumn(h, row_content.v)
      [] row_content.type = "list" -> RowFromList(row_content.items, h)
      [] OTHER -> NewColumn(h, StrOf(row_content))

\* copy.deepcopy of a Row
DeepCopyRow(row, h) ==
    [columns |-> [i \in 1..Len(row.columns) |-> Len(h) + i],
     heap |-> h \o [i \in 1..Len(row.columns) |-> h[row.columns[i]]]]

\* the caller's Row object itself
SameRow(row, h) == [columns |-> row.columns, heap |-> h]

\* the rows a widget keeps for the elements of a list: a Row is deep-copied
\* (set_rows) or kept as it is (set_prompt), anything else goes to Row(...)
RECURSIVE IngestList(_, _, _)
IngestList(items, h, copyRows) ==
    IF Len(items) = 0 THEN [rows |-> <<>>, heap |-> h]
    ELSE LET rest == IngestList(SubSeq(items, 1, Len(items) - 1), h, copyRows)
             x == items[Len(items)]
             r == IF x.type = "Row"
                    THEN IF copyRows THEN DeepCopyRow(x, rest.heap)
                                     ELSE SameRow(x, rest.heap)
                    ELSE RowInit(x, rest.heap)
         IN  [rows |-> Append(rest.rows, r.columns), heap |-> r.heap]

\* the texts a widget shows: one list of column texts per row
View(rs, h) == [i \in 1..Len(rs) |-> [j \in 1..Len(rs[i]) |-> h[rs[i][j]]]]

outsideRow == <<bridgeVars, menuVars, panelVars, geo, ip, dlg>>

Ingested(op, arg, res) ==
    rowObj' = [pc |-> "ingested", op |-> op, arg |-> arg, err |-> FALSE,
               rows |-> res.rows, heap |-> res.heap,
               snapshot |-> View(res.rows, res.heap)]

\* Row(row_content)
RowNew(arg) ==
    /\ rowObj.pc = "none"
    /\ LET r == RowInit(arg, CallerHeap)
       IN  Ingested("Row", arg, [rows |-> <<r.columns>>, heap |-> r.heap])
    /\ UNCHANGED outsideRow

\* ScrollingPanel.set_rows(new_rows)
RowSetRows(arg) ==
    /\ rowObj.pc = "none"
    /\ Ingested("set_rows", arg, IngestList(arg.items, CallerHeap, TRUE))
    /\ UNCHANGED outsideRow

\* ScrollingPanel.set_header(header_row)
RowSetHeader(arg) ==
    /\ rowObj.pc = "none"
    /\ Ingested("set_header", arg,
                IF arg.type = "Row" THEN IngestList(<<arg>>, CallerHeap, TRUE)
                ELSE IF Truthy(arg) THEN IngestList(<<arg>>, CallerHeap, TRUE)
                ELSE [rows |-> <<>>, heap |-> CallerHeap])
    /\ UNCHANGED outsideRow

\* DialogBox.set_prompt(prompt)
RowSetPrompt(arg) ==
    /\ rowObj.pc = "none"
    /\ Ingested("set_prompt", arg,
                IF arg.type = "list" THEN IngestList(arg.items, CallerHeap, FALSE)
                ELSE IngestList(<<arg>>, CallerHeap, FALSE))
    /\ UNCHANGED outsideRow

\* the caller changes the text of one of its own Column objects afterwards
CallerMutates(id, t) ==
    /\ rowObj.pc \in {"ingested", "mutated"}
    /\ rowObj.heap[id] # t
    /\ rowObj' = [rowObj EXCEPT !.pc = "mutated", !.heap[id] = t]
    /\ UNCHANGED outsideRow

NextRow ==
    \/ \E arg \in RowArgs : RowNew(arg)
    \/ \E arg \in RowsArgs : RowSetRows(arg)
    \/ \E arg \in RowArgs : RowSetHeader(arg)
    \/ \E arg \in RowArgs : RowSetPrompt(arg)
    \/ \E id \in 1..Len(CallerHeap), t \in {"ZZ", "Y"} : CallerMutates(id, t)

SpecRow == Init /\ [][NextRow]_vars

\* C25: a Row or Column handed to Row(...), set_rows, set_header or set_prompt
\* is copied on ingestion: after the caller changes its own object the widget
\* shows what it showed when the object was handed over.
C25_CopiedOnIngestion ==
    rowObj.pc = "mutated" => View(rowObj.rows, rowObj.heap) = rowObj.snapshot

\* row_content of a type Row.__init__ is written for: a str, a Column, or a
\* list of them
SupportedRowContent(x) ==
    \/ x.type \in {"str", "Column"}
    \/ /\ x.type = "list"
       /\ \A i \in 1..Len(x.items) : x.items[i].type \in {"str", "Column"}

\* C26: Row(row_content) with a row_content that is not a str, a Column or a
\* list of them fails with an error, and no Row is made.
C26_UnsupportedTypeFails ==
    (rowObj.pc # "none" /\ rowObj.op = "Row" /\ ~SupportedRowContent(rowObj.arg))
        => (rowObj.err /\ rowObj.rows = <<>>)

(* ------------------ claims about the bridge's wait and pipe ------------- *)

\* C27: the foreground's wait does not poll: every return of select() (every
\* turn of the wait loop) is caused by a new event, a keystroke that is then
\* read or the sentinel reported readable for the first time.
C27_EveryWakeIsNewEvent ==
    [][(fgPc = "select" /\ fgPc' # "select") => (keys' # keys \/ ~pipeSeen)]_vars

\* C28: the read end of the pipe is open from the creation of the thread
\* through every way the call ends; the bridge never takes the sentinel out
\* of the pipe, and the worker (abandoned or not) writes its sentinel to a
\* pipe whose read end is open.
C28_ReadEndStaysOpen ==
    [][/\ wkPc' # "none" => readOpen'
       /\ calls' = calls => pipeBytes' >= pipeBytes
       /\ sentinels' > sentinels => readOpen
       /\ (fgPc = "select" /\ fgPc' # "select") => readOpen]_vars

C28_Witness ==
    /\ fgPc = "done"
    /\ outcome = "UserCancel"
    /\ cancelAt = "running"
    /\ wkPc = "dead"
    /\ sentinels = 1
    /\ pipeBytes = 1
    /\ readOpen

(* --------------------------- the modal key loops ------------------------ *)

\* the keys typed at a menu
ModalKeys == {KEY_UP, KEY_DOWN, ESC, RET}

\* MainMenu(): ScrollingPanel.__init__ with its defaults
NewMenu ==
    /\ pPc = "idle"
    /\ lastOp.op = "new"
    /\ rows = <<>>
    /\ header_row = <<>>
    /\ psel.row = 0

\* MainMenu.run_modally up to its first getch, on the panel the menu is:
\* set_rows(rows), then the render() at the head of the loop
PanelModalStart(rs) ==
    /\ NewMenu
    /\ LET n  == Len(rs)
           cw == ColumnWidthsOf(header_row, rs)
           r  == Render(FALSE, TRUE, header_row, cw)
       IN  /\ rows' = rs
           /\ column_widths' = cw
           /\ psel' = SetRowsSel(psel, n)
           /\ content_height' = ContentHeight(n, num_header_rows)
           /\ needs_render' = r.nr
           /\ Note("modal", None, r.painted)
           /\ IF r.raised THEN PanelRaise(IndexError)
              ELSE pPc' = "modal" /\ UNCHANGED pErr
    /\ run_result' = None
    /\ UNCHANGED <<header_row, num_header_rows, stopKeys, seqVars, outsidePanel>>

\* the user types key k while the menu's loop runs
ModalKeyPress(k) ==
    /\ pPc = "modal"
    /\ Len(keys) < MaxQueue
    /\ keys' = Append(keys, k)
    /\ UNCHANGED <<bridgeNoKeys, menuVars, panelVars, widgetVars>>

\* one turn of run_modally's loop: the oldest key is read.  ESCAPE asks
\* quit_confirm and on True hides the menu and returns; RETURN hides the
\* menu, runs the callback (which returns, or raises an exception that is
\* shown in a MessagePanel, or raises one that leaves run_modally) and shows
\* the menu again; any other key goes to handle_keystroke.  Then the loop
\* renders.
PanelModalKey(quit, cb) ==
    /\ pPc = "modal"
    /\ keys # <<>>
    /\ keys' = Tail(keys)
    /\ HandleKeystroke(psel, Head(keys), RowCols(rows), content_height).col >= -MaxColUnder
    /\ LET k == Head(keys)
           h == HandleKeystroke(psel, k, RowCols(rows), content_height)
       IN  CASE k = ESC ->
                  /\ pPc' = IF quit THEN "returned" ELSE "modal"
                  /\ Note("modalkey", k, FALSE)
                  /\ UNCHANGED <<psel, needs_render, pErr>>
             [] k = RET ->
                  IF cb = NonException
                    THEN /\ PanelRaise(NonException)
                         /\ Note("modalkey", k, FALSE)
                         /\ UNCHANGED <<psel, needs_render>>
                    ELSE LET r == Render(TRUE, needs_render, header_row, column_widths)
                         IN  /\ needs_render' = r.nr
                             /\ Note("modalkey", k, r.painted)
                             /\ IF r.raised THEN PanelRaise(IndexError)
                                ELSE UNCHANGED <<pPc, pErr>>
                             /\ UNCHANGED psel
             [] OTHER ->
                  IF h.err
                    THEN /\ PanelRaise(IndexError)
                         /\ Note("modalkey", k, FALSE)
                         /\ UNCHANGED <<psel, needs_render>>
                    ELSE LET r == Render(FALSE, needs_render \/ h.changed,
                                         header_row, column_widths)
                         IN  /\ psel' = Sel(h)
                             /\ needs_render' = r.nr
                             /\ Note("modalkey", k, r.painted)
                             /\ IF r.raised THEN PanelRaise(IndexError)
                                ELSE UNCHANGED <<pPc, pErr>>
    /\ run_result' = None
    /\ UNCHANGED <<rows, header_row, num_header_rows, column_widths,
                   content_height, stopKeys, seqVars>>
    /\ UNCHANGED <<bridgeNoKeys, menuVars, widgetVars>>

\* one widget at a time: a ScrollingPanel (in run, or as a MainMenu in
\* run_modally), an InputPanel or a DialogBox
NextLoops ==
    \/ ip.pc = "none" /\ dlg.pc = "none" /\ NextPanel
    \/ \E rs \in RowLists : PanelModalStart(rs)
    \/ \E k \in ModalKeys : ModalKeyPress(k)
    \/ \E quit \in BOOLEAN, cb \in {"ok", OtherException, NonException} :
          PanelModalKey(quit, cb)
    \/ pPc = "none" /\ dlg.pc = "none" /\ NextInput
    \/ pPc = "none" /\ ip.pc = "none" /\ NextDialog

SpecLoops == Init /\ [][NextLoops]_vars

\* the loop is blocked in getch
AtKeyRead(pc) == pc \in {"run", "modal"}

\* C29: the key loops of ScrollingPanel.run, MainMenu.run_modally,
\* InputPanel.run and DialogBox.run handle one key per turn, the oldest
\* first, and whenever a loop is blocked reading the next key its panel is
\* clean (needs_render is false).
C29_CleanAtKeyRead ==
    /\ [](/\ AtKeyRead(pPc) => ~needs_render
          /\ AtKeyRead(ip.pc) => ~ip.needs_render
          /\ AtKeyRead(dlg.pc) => ~dlg.needs_render)
    /\ [][(pPc = "modal" /\ lastOp' # lastOp)
             => (keys # <<>> /\ keys' = Tail(keys) /\ lastOp'.key = Head(keys))]_vars

C29_Witness ==
    /\ pPc = "modal"
    /\ lastOp.op = "modalkey"
    /\ lastOp.key = KEY_DOWN
    /\ lastOp.painted
    /\ psel.row = 1
    /\ keys = <<KEY_UP>>

(* ------------------------- a run of KEY_DOWN keys ----------------------- *)

\* ScrollingPanel(rows, height=c + 2) with n one-column rows and no header:
\* the hilighted row and the top row are 0, the content height is
\* height - 2 (set_geometry takes a height of one or more rows as it is)
DownNew(n, c) ==
    /\ pPc = "none"
    /\ pPc' = "idle"
    /\ header_row' = <<>>
    /\ num_header_rows' = 0
    /\ rows' = [i \in 1..n |-> Narrow]
    /\ column_widths' = ColumnWidthsOf(<<>>, rows')
    /\ psel' = SetRowsSel([row |-> 0, col |-> 0, top |-> 0], n)
    /\ content_height' =
           GeometrySize([kind |-> "cells", v |-> c + 2], ScreenRows, n + 2) - 2 - 0
    /\ needs_render' = FALSE
    /\ Note("new", None, TRUE)
    /\ run_result' = None
    /\ UNCHANGED <<stopKeys, pErr, seqVars, outsidePanel>>

\* handle_keystroke(KEY_DOWN)
DownKey ==
    /\ Len(seqKeys) < MaxDowns
    /\ PanelKeyCore(KEY_DOWN)
    /\ seqKeys' = Append(seqKeys, KEY_DOWN)
    /\ UNCHANGED seqI0

NextDown ==
    \/ \E n \in 1..MaxDownRows, c \in 1..MaxDownHeight : DownNew(n, c)
    \/ DownKey

SpecDown == Init /\ [][NextDown]_vars

\* C30: on a panel with n >= 1 rows and content height c >= 1 that starts at
\* row 0 with top row 0, after k KEY_DOWNs the hilighted row is min(k, n-1)
\* and the top row is max(0, min(k, n-1) - c + 1).  With n = 6 and c = 4:
\* after four the row is 4 and the window [1, 5), after five the row is 5 and
\* the window [2, 6), and a sixth changes nothing.
C30_DownsThenClamp ==
    pPc # "none" =>
      LET k == Len(seqKeys)
          n == num_rows
          c == content_height
      IN  /\ pPc = "idle"
          /\ psel.row = Min(k, n - 1)
          /\ psel.top = Max(0, Min(k, n - 1) - c + 1)
          /\ (n = 6 /\ c = 4 /\ k = 4) => (psel.row = 4 /\ psel.top = 1)
          /\ (n = 6 /\ c = 4 /\ k = 5) => (psel.row = 5 /\ psel.top = 2)
          /\ (n = 6 /\ c = 4 /\ k = 6) =>
                (psel.row = 5 /\ psel.top = 2)

C30_Witness ==
    /\ pPc = "idle"
    /\ num_rows = 6
    /\ content_height = 4
    /\ Len(seqKeys) = 6
    /\ psel.row = 5
    /\ psel.top = 2

(* --------------------------- Page Up, Page Down ------------------------- *)

\* what Page Up is to do
PageUpEffect ==
    IF psel.row > psel.top
      THEN psel'.row = psel.top /\ psel'.top = psel.top
      ELSE psel'.row = Max(psel.row - content_height, 0) /\ psel'.top = psel'.row

\* what Page Down is to do
PageDownEffect ==
    IF psel.row < psel.top + content_height - 1
      THEN /\ psel'.row = Min(psel.top + content_height - 1, num_rows - 1)
           /\ psel'.top = psel.top
      ELSE /\ psel'.row = Min(psel.row + content_height, num_rows - 1)
           /\ psel'.top + content_height - 1 = psel'.row

\* C31: Page Up moves the highlight to the window top (window unchanged) when
\* the hilighted row is below it, and otherwise up by content_height rows,
\* clamped at row 0, with the window top following; Page Down moves it to the
\* last visible row (clamped to the last row, window unchanged) when it is
\* above that row, and otherwise down by content_height rows, clamped at the
\* last row, with the window re-anchored so that the highlight is its last
\* line.
C31_PageKeys ==
    [][/\ KeyStep(KEY_PPAGE) => PageUpEffect
       /\ KeyStep(KEY_NPAGE) => PageDownEffect]_vars

(* --------------------------- typing into an InputPanel ------------------ *)

Hello == <<"h", "e", "l", "l", "o">>

\* InputPanel(default_value, entry_width) with a default text shorter than
\* the entry width
TypeNew(dflt, w) ==
    /\ ip.pc = "none"
    /\ Len(dflt) < w
    /\ ip' = InputInit(dflt, w, {"a", "b"})
    /\ UNCHANGED outsideInput

\* handle_keystroke with an allowed character
TypeChar(k) ==
    /\ ip.pc = "idle"
    /\ Len(ip.text) < MaxTypeText
    /\ ip' = [InputHandle(ip, k) EXCEPT !.last = k, !.painted = FALSE]
    /\ UNCHANGED outsideInput

\* handle_keystroke(KEY_END) while the text is shorter than the entry width
TypeEnd ==
    /\ ip.pc = "idle"
    /\ Len(ip.text) < ip.entry_width
    /\ ip' = [InputHandle(ip, KEY_END) EXCEPT !.last = KEY_END, !.painted = FALSE]
    /\ UNCHANGED outsideInput

NextType ==
    \/ \E n \in 0..MaxTypeWidth - 1, w \in 1..MaxTypeWidth : TypeNew([i \in 1..n |-> "a"], w)
    \/ \E w \in 1..MaxTypeWidth : TypeNew(Hello, w)
    \/ TypeChar("a")
    \/ TypeEnd

SpecType == Init /\ [][NextType]_vars

\* C32: an InputPanel with entry width w whose text is shorter than w, with
\* the cursor at the end and the window start at 0: after any number of typed
\* allowed characters the cursor is at the end of the text and the window
\* start is max(0, cursor_index - w + 1).  With w = 10 and the default text
\* "hello", End gives cursor 5 and window start 0, and 8 typed characters
\* give cursor 13 and window start 4.
C32_TypingScrolls ==
    ip.pc = "idle" =>
      /\ ip.cursor = Len(ip.text)
      /\ ip.first = Max(0, ip.cursor - ip.entry_width + 1)
      /\ (ip.entry_width = 10 /\ ip.text = Hello /\ ip.last = KEY_END)
            => (ip.cursor = 5 /\ ip.first = 0)
      /\ (ip.entry_width = 10 /\ Len(ip.text) = 13 /\ SubSeq(ip.text, 1, 5) = Hello)
            => (ip.cursor = 13 /\ ip.first = 4)

C32_Witness ==
    /\ ip.pc = "idle"
    /\ ip.entry_width = 10
    /\ ip.text = Hello \o <<"a", "a", "a", "a", "a", "a", "a", "a">>
    /\ ip.last = "a"
    /\ ip.cursor = 13
    /\ ip.first = 4

(* --------------------------- what render paints ------------------------- *)

\* columns with no width, and with a width above and below the text's length
PaintColumns == {Col(t, w) : t \in {"a", "abc"}, w \in {0, 2}}
PaintRows == UNION {[1..n -> PaintColumns] : n \in 1..2}
PaintRowLists == UNION {[1..n -> PaintRows] : n \in 1..2}

\* ScrollingPanel(width=...): None, or a number of cells that leaves room for
\* the border and the blank at either side
PaintWidths == {Unset} \cup {[kind |-> "cells", v |-> v] : v \in 4..MaxPaintScreen}

RECURSIVE SumSeq(_)
SumSeq(q) == IF q = <<>> THEN 0 ELSE Head(q) + SumSeq(Tail(q))

\* len(raw_text[:w])
SliceLen(n, w) == IF w >= 0 THEN Min(n, w) ELSE Max(n + w, 0)

\* render's loop over the columns of one row, from column ci at offset x:
\* each addstr with its offset, the width it was formatted to and the number
\* of characters handed to the window
RECURSIVE PaintFrom(_, _, _, _, _)
PaintFrom(row, ci, x, cw, right) ==
    IF ci > Len(row) THEN <<>>
    ELSE LET clip  == x + cw[ci] > right \/ ci = Len(cw)
             width == IF clip THEN right - x ELSE cw[ci]
             raw   == IF clip THEN SliceLen(Len(row[ci].text), width)
                              ELSE Len(row[ci].text)
             paint == [x |-> x, width |-> width, chars |-> Max(raw, width),
                       clip |-> x + cw[ci] > right]
         IN  IF x + width >= right THEN <<paint>>
             ELSE <<paint>> \o PaintFrom(row, ci + 1, x + width, cw, right)

\* ScrollingPanel(rows, width=w) and render(): set_rows' column widths,
\* set_geometry's window width and content boundaries, and what is painted
\* for each row (all rows are visible, no header, inner_padding 0)
PaintPanel(rs, w) ==
    /\ geo.pc = "none"
    /\ LET cw    == ColumnWidthsOf(<<>>, rs)
           width == GeometrySize(w, MaxPaintScreen, SumSeq(cw) + 4)
       IN  geo' = [pc |-> "painted", rows |-> rs, column_widths |-> cw,
                   width |-> width, content_left |-> 2, content_right |-> width - 2,
                   paints |-> [i \in 1..Len(rs) |-> PaintFrom(rs[i], 1, 2, cw, width - 2)]]
    /\ UNCHANGED <<bridgeVars, menuVars, panelVars, ip, dlg, rowObj>>

NextPaint == \E rs \in PaintRowLists, w \in PaintWidths : PaintPanel(rs, w)

SpecPaint == Init /\ [][NextPaint]_vars

\* C33: render paints every column of every row with exactly as many
\* characters as the width it gives the column (the shared column width, or
\* what is left up to content_right for a column that would overflow and for
\* the last column), nothing is painted past content_right, and after a
\* column that would overflow no further column of the row is painted; also
\* for a Column whose explicit width is smaller than its text length.
C33_PaintedWithinWidth ==
    geo.pc = "painted" =>
      \A i \in 1..Len(geo.rows) : \A j \in 1..Len(geo.paints[i]) :
        LET p == geo.paints[i][j]
        IN  /\ p.chars = p.width
            /\ p.x + p.chars <= geo.content_right
            /\ p.clip => j = Len(geo.paints[i])

(* --------------------------- InputPanel's indices ----------------------- *)

\* C34: in InputPanel, after construction and after any key sequence,
\* 0 <= first_displayed_char_index <= cursor_index <= len(text).
C34_IndicesOrdered ==
    ip.pc \in {"idle", "run"} =>
      /\ 0 <= ip.first
      /\ ip.first <= ip.cursor
      /\ ip.cursor <= Len(ip.text)

\* after Left the cursor is on the first displayed character of a scrolled text
C34_Witness ==
    /\ ip.pc = "idle"
    /\ ip.last = KEY_LEFT
    /\ 0 < ip.first
    /\ ip.first = ip.cursor
    /\ ip.cursor < Len(ip.text)
    /\ ip.cursor + 1 < ip.entry_width + ip.first

(* --------------------------- keys read during the wait ------------------ *)

\* the step is the wait's getch_function() call: it takes the first queued key
WaitReadsKey ==
    /\ fgPc = "select"
    /\ StdinReady
    /\ keys' = Tail(keys)

\* the step leaves the call and the worker as they would be had the key not
\* been typed: the wait goes on, nothing is raised or returned, no panel is
\* touched
KeyDiscarded ==
    /\ fgPc' = "loop"
    /\ UNCHANGED <<cfg, pendingExc, outcome, retval, cancelAt, dlgShown, msgPanel,
                   logged, ackKey, readOpen, fgReads>>
    /\ UNCHANGED <<wkPc, callable_result, callable_exception_info_tuple, pipeBytes,
                   writeOpen>>

\* the step that reads a key outside cancel_keys consumes it and goes back to
\* the loop's test with nothing else changed; in the dialog's call exactly
\* ESCAPE and RETURN raise UserCancelException
C35_OtherKeysDiscarded ==
    [][WaitReadsKey =>
         /\ Head(keys) \notin cfg.cancel => KeyDiscarded
         /\ cfg.viaDialog =>
              ((pendingExc' = "UserCancel" /\ fgPc' = "finally")
                 <=> Head(keys) \in {ESC, RET})]_vars

\* the call ends as it would have without the discarded key: a cancel key
\* that was queued behind it has been read and has cancelled the task
C35_QueuedCancelStillCancels ==
    fgPc = "done" => (~passedOver /\ (cancelAt # None => outcome = "UserCancel"))

\* C35 (as stated): a key read during the wait that is not in cancel_keys is
\* discarded without ending the wait, the call's final outcome is the one it
\* would have had without that key, and in run_cancellable_thread_dialog
\* exactly the confirm and cancel keys cancel the task.
C35_AsIfNeverPressed ==
    C35_OtherKeysDiscarded /\ []C35_QueuedCancelStillCancels

(* --------------------------- set_rows and the selection ----------------- *)

\* the hilighted_row arguments of NextPanel's set_rows calls
RowArgChoices == {NoRowArg, -1, 0, MaxRows - 1}

\* the row set_rows leaves hilighted when no hilighted_row is given
KeptRow(n) == IF psel.row < n THEN psel.row ELSE Max(n - 1, 0)

\* C36 (amended): set_rows always resets top_visible_row_index and
\* hilighted_col_index to 0 and leaves hilighted_row_index unchanged when it
\* is below the new row count, otherwise sets it to max(num_rows-1, 0); with
\* a hilighted_row argument the highlight becomes that row when it is below
\* the new row count and max(num_rows-1, 0) otherwise, and the window top
\* stays 0.
C36_SetRowsSelection ==
    [][\A rs \in RowLists, hr \in RowArgChoices :
          PanelSetRows(rs, hr) =>
            /\ psel'.top = 0
            /\ psel'.col = 0
            /\ hr = NoRowArg => psel'.row = KeptRow(Len(rs))
            /\ hr # NoRowArg =>
                 psel'.row = IF hr < Len(rs) THEN hr ELSE Max(Len(rs) - 1, 0)]_vars

\* C36 (as stated): the same, with a hilighted_row argument clamped above by
\* num_rows-1.
C36_SetRowsClampsToLast ==
    [][\A rs \in RowLists, hr \in RowArgChoices :
          PanelSetRows(rs, hr) =>
            /\ psel'.top = 0
            /\ psel'.col = 0
            /\ hr = NoRowArg => psel'.row = KeptRow(Len(rs))
            /\ hr # NoRowArg => psel'.row = Min(hr, Len(rs) - 1)]_vars

\* set_rows has just put the highlight on the last of several rows, with the
\* window at the top
C36_Witness ==
    /\ lastOp.op = "set_rows"
    /\ num_rows >= 2
    /\ psel = [row |-> num_rows - 1, col |-> 0, top |-> 0]

(* --------------------------- a panel without rows ----------------------- *)

\* handle_keystroke(k) would raise IndexError and assign nothing
KeyFails(k) ==
    LET h == HandleKeystroke(psel, k, RowCols(rows), content_height)
    IN  h.err /\ Sel(h) = psel /\ ~h.changed

\* the step is a handle_keystroke call made by the panel's owner
OwnerKeyStep == pPc = "idle" /\ lastOp'.op = "key"

\* the step is a turn of run_modally's loop that reads a key other than
\* ESCAPE and RETURN
ModalOtherKeyStep ==
    /\ pPc = "modal"
    /\ keys # <<>>
    /\ keys' = Tail(keys)
    /\ Head(keys) \notin {ESC, RET}

\* the call ends with IndexError and the selection as it was
EndsWithIndexError ==
    /\ pPc' = "raised"
    /\ pErr' = IndexError
    /\ UNCHANGED <<psel, needs_render>>

\* C37: on a ScrollingPanel with zero rows handle_keystroke fails with an
\* IndexError for every key and leaves the selection state as it was; in
\* MainMenu.run_modally a key other than confirm and cancel goes to
\* handle_keystroke outside the callback's exception boundary, so with an
\* empty menu such a key makes run_modally end with that error.
C37_EmptyPanelKeyFails ==
    /\ []((pPc # "none" /\ num_rows = 0) => \A k \in PanelKeys : KeyFails(k))
    /\ [][(num_rows = 0 /\ (OwnerKeyStep \/ ModalOtherKeyStep)) => EndsWithIndexError]_vars

\* run_modally of a menu without entries has ended with the IndexError of
\* the Down key
C37_Witness ==
    /\ pPc = "raised"
    /\ pErr = IndexError
    /\ lastOp.op = "modalkey"
    /\ lastOp.key = KEY_DOWN
    /\ num_rows = 0

(* --------------------------- the column under navigation ---------------- *)

\* row lists of every length up to MaxRows, each row with one or two columns
NavRowLists == UNION {[1..n -> {Narrow, Wide}] : n \in 0..MaxRows}

\* a panel that is constructed, given rows and then only navigated:
\* ScrollingPanel(rows) or MessagePanel(rows), set_rows, handle_keystroke
NextNav ==
    \/ \E rs \in NavRowLists, hrow \in {-1, 0} : PanelNew(rs, <<>>, hrow, FALSE)
    \/ \E rs \in NavRowLists, hr \in RowArgChoices : PanelSetRows(rs, hr)
    \/ \E k \in NavKeys : PanelKey(k)

SpecNav == Init /\ [][NextNav]_vars

\* the number of columns of the hilighted row, in the step's second state
ColsOfNewRow == Len(rows'[PyIndex(psel'.row, num_rows')])

\* 0 <= hilighted_col_index < number of columns of the hilighted row
ColumnInsideRow ==
    /\ IndexOK(psel.row, num_rows)
    /\ 0 <= psel.col
    /\ psel.col < Len(rows[PyIndex(psel.row, num_rows)])

\* the step is a handle_keystroke call that returned and changed the row
RowChangingKeyStep ==
    /\ pPc = "idle" /\ pPc' = "idle"
    /\ lastOp'.op = "key"
    /\ psel'.row # psel.row

\* C38: on a ScrollingPanel whose rows each have at least one column, after
\* set_rows and after any sequence of navigation keystrokes,
\* 0 <= hilighted_col_index < number of columns of the hilighted row; on a
\* keystroke that changes the row the column index becomes
\* min(previous column index, last column of the new row).
C38_ColumnInsideRow ==
    /\ []((pPc = "idle" /\ num_rows >= 1) => ColumnInsideRow)
    /\ [][RowChangingKeyStep => psel'.col = Min(psel.col, ColsOfNewRow - 1)]_vars

(* --------------------------- the confirm key of the menu ---------------- *)

\* where run_modally is while the callback of an entry runs, and while the
\* MessagePanel of its exception handler is up
InCallback == menuPc \in {"generic", "list", "nofiles", "edit", "fetch"}
InCallbackNext == menuPc' \in {"generic", "list", "nofiles", "edit", "fetch"}
InBoundary == InCallback \/ menuPc = "excpanel"

\* the step is run_modally's read of a confirm key
ConfirmStep ==
    /\ menuPc = "getch"
    /\ keys # <<>>
    /\ Head(keys) = RET
    /\ keys' = Tail(keys)

\* the confirm key starts the callback of the hilighted entry, with the menu
\* hidden; an entry without callback starts none and the menu is shown
StartsHilightedCallback ==
    /\ sel' = sel
    /\ sel.row < numRows =>
         CASE MenuChoice(sel.row) = "none" ->
                menuPc' = "getch" /\ menuVisible'
           [] MenuChoice(sel.row) = "generic" ->
                menuPc' = "generic" /\ ~menuVisible'
           [] OTHER ->
                menuPc' = (IF hasVideos THEN "list" ELSE "nofiles") /\ ~menuVisible'

\* what holds from the confirm key until the loop reads keys again: the menu
\* is hidden, its hilighted row and top row stay, and a callback is started
\* by a confirm key only
WhileCallbackRuns ==
    /\ [][ConfirmStep => StartsHilightedCallback]_vars
    /\ [][(~InCallback /\ InCallbackNext) => ConfirmStep]_vars
    /\ [](InBoundary => ~menuVisible)
    /\ [][InBoundary => (sel'.row = sel.row /\ sel'.top = sel.top)]_vars

\* the loop reads keys again with the menu shown
BackAtMenu == menuPc' = "getch" /\ menuVisible'

\* the step ends the callback, or the MessagePanel that showed its exception
BoundaryLeft == InBoundary /\ ~(InCallbackNext \/ menuPc' = "excpanel")

====
